---- MODULE Spec2Model ----
(***************************************************************************)
(* Word-frequency analysis engine of learner-platform.                     *)
(*                                                                         *)
(* Strings are sequences of one-character strings, so that cleaning,       *)
(* tokenizing and stemming are computed character by character as the      *)
(* regular expressions of the source compute them.                         *)
(***************************************************************************)
EXTENDS Integers, Sequences, FiniteSets, TLC

(***************************************************************************)
(* Characters and the JavaScript string primitives the engine uses.        *)
(***************************************************************************)
LowerSeq ==
  <<"a","b","c","d","e","f","g","h","i","j","k","l","m",
    "n","o","p","q","r","s","t","u","v","w","x","y","z">>
UpperSeq ==
  <<"A","B","C","D","E","F","G","H","I","J","K","L","M",
    "N","O","P","Q","R","S","T","U","V","W","X","Y","Z">>
LowerLetters == { LowerSeq[i] : i \in DOMAIN LowerSeq }
UpperLetters == { UpperSeq[i] : i \in DOMAIN UpperSeq }
Letters == LowerLetters \cup UpperLetters
Digits == {"0","1","2","3","4","5","6","7","8","9"}
\* \w of a JavaScript regular expression
IsWordChar(c) == c \in Letters \cup Digits \cup {"_"}
\* \s of a JavaScript regular expression
IsSpace(c) == c \in {" ", "\t", "\n", "\r"}

\* the value of a missing string field (article.content of a malformed article)
undefined == <<"undefined">>
IsString(x) == x # undefined

toLowerCaseChar(c) ==
  IF c \in UpperLetters
    THEN LowerSeq[CHOOSE i \in DOMAIN UpperSeq : UpperSeq[i] = c]
    ELSE c
toLowerCase(s) == [i \in 1..Len(s) |-> toLowerCaseChar(s[i])]

RECURSIVE trimStart(_)
trimStart(s) ==
  IF s # <<>> /\ IsSpace(Head(s)) THEN trimStart(Tail(s)) ELSE s
RECURSIVE trimEnd(_)
trimEnd(s) ==
  IF s # <<>> /\ IsSpace(s[Len(s)]) THEN trimEnd(SubSeq(s, 1, Len(s) - 1)) ELSE s
trim(s) == trimEnd(trimStart(s))

endsWith(s, suffix) ==
  /\ Len(suffix) <= Len(s)
  /\ SubSeq(s, Len(s) - Len(suffix) + 1, Len(s)) = suffix
startsWith(s, prefix) ==
  /\ Len(prefix) <= Len(s)
  /\ SubSeq(s, 1, Len(prefix)) = prefix
\* s.slice(0, -n)
dropLast(s, n) == SubSeq(s, 1, Len(s) - n)
\* s.slice(0, n)
sliceTo(s, n) == SubSeq(s, 1, IF n < Len(s) THEN n ELSE Len(s))
\* array.includes(x) / string.includes(ch)
includes(seq, x) == \E i \in DOMAIN seq : seq[i] = x

\* s.split(sep) for a one-character separator: empty pieces are kept
RECURSIVE split(_, _)
split(s, sep) ==
  IF includes(s, sep)
    THEN LET i == CHOOSE k \in DOMAIN s :
                    s[k] = sep /\ \A j \in 1..(k - 1) : s[j] # sep
         IN  <<SubSeq(s, 1, i - 1)>> \o split(SubSeq(s, i + 1, Len(s)), sep)
    ELSE <<s>>

\* s.split(/[seps]+/): the pieces between maximal runs of separator characters;
\* a leading or trailing run leaves an empty first or last piece
RECURSIVE splitOnRuns(_, _)
splitOnRuns(s, seps) ==
  IF \E k \in DOMAIN s : s[k] \in seps
    THEN LET i == CHOOSE k \in DOMAIN s :
                    s[k] \in seps /\ \A j \in 1..(k - 1) : s[j] \notin seps
             after == { k \in (i + 1)..Len(s) : s[k] \notin seps }
             j == IF after = {} THEN Len(s) + 1
                  ELSE CHOOSE k \in after : \A l \in after : k <= l
         IN  <<SubSeq(s, 1, i - 1)>> \o splitOnRuns(SubSeq(s, j, Len(s)), seps)
    ELSE <<s>>

\* s.replace(/\s+/g, ' ')
RECURSIVE collapseWhitespace(_)
collapseWhitespace(s) ==
  IF \E k \in DOMAIN s : IsSpace(s[k])
    THEN LET i == CHOOSE k \in DOMAIN s :
                    IsSpace(s[k]) /\ \A j \in 1..(k - 1) : ~IsSpace(s[j])
             after == { k \in (i + 1)..Len(s) : ~IsSpace(s[k]) }
             j == IF after = {} THEN Len(s) + 1
                  ELSE CHOOSE k \in after : \A l \in after : k <= l
         IN  SubSeq(s, 1, i - 1) \o <<" ">> \o collapseWhitespace(SubSeq(s, j, Len(s)))
    ELSE s

\* PUNCTUATION = /[^\w\s']|_/g, the same expression in the worker and in TextAnalyzer
IsPunctuation(c) == (~IsWordChar(c) /\ ~IsSpace(c) /\ c # "'") \/ c = "_"
replacePunctuation(s) ==
  [i \in 1..Len(s) |-> IF IsPunctuation(s[i]) THEN " " ELSE s[i]]

\* VALID_WORD = /^[a-zA-Z][a-zA-Z']*[a-zA-Z]$|^[a-zA-Z]$/
VALID_WORD(w) ==
  \/ /\ Len(w) >= 2
     /\ w[1] \in Letters
     /\ w[Len(w)] \in Letters
     /\ \A i \in 2..(Len(w) - 1) : w[i] \in Letters \cup {"'"}
  \/ Len(w) = 1 /\ w[1] \in Letters

(***************************************************************************)
(* The tokenizer of the background worker (WorkerTextProcessor).           *)
(***************************************************************************)
STOP_WORDS_Worker ==
  {
    <<"t","h","e">>, <<"a">>, <<"a","n">>, <<"a","n","d">>,
    <<"o","r">>, <<"b","u","t">>, <<"i","n">>, <<"o","n">>,
    <<"a","t">>, <<"t","o">>, <<"f","o","r">>, <<"o","f">>,
    <<"w","i","t","h">>, <<"b","y">>, <<"i","s">>, <<"a","r","e">>,
    <<"w","a","s">>, <<"w","e","r","e">>, <<"b","e">>, <<"b","e","e","n">>,
    <<"b","e","i","n","g">>, <<"h","a","v","e">>, <<"h","a","s">>, <<"h","a","d">>,
    <<"d","o">>, <<"d","o","e","s">>, <<"d","i","d">>, <<"w","i","l","l">>,
    <<"w","o","u","l","d">>, <<"c","o","u","l","d">>, <<"s","h","o","u","l","d">>, <<"m","a","y">>,
    <<"m","i","g","h","t">>, <<"c","a","n">>, <<"s","h","a","l","l">>, <<"m","u","s","t">>,
    <<"i">>, <<"y","o","u">>, <<"h","e">>, <<"s","h","e">>,
    <<"i","t">>, <<"w","e">>, <<"t","h","e","y">>, <<"m","e">>,
    <<"h","i","m">>, <<"h","e","r">>, <<"u","s">>, <<"t","h","e","m">>,
    <<"m","y">>, <<"y","o","u","r">>, <<"h","i","s">>, <<"i","t","s">>,
    <<"o","u","r">>, <<"t","h","e","i","r">>, <<"t","h","i","s">>, <<"t","h","a","t">>,
    <<"t","h","e","s","e">>, <<"t","h","o","s","e">> }

Worker_cleanText(text) ==
  trim(collapseWhitespace(replacePunctuation(toLowerCase(text))))

Worker_keepWord(word) ==
  /\ Len(word) >= 2
  /\ VALID_WORD(word)
  /\ word \notin STOP_WORDS_Worker

Worker_extractWords(text) ==
  LET pieces == split(Worker_cleanText(text), " ")
      words == [i \in 1..Len(pieces) |-> trim(pieces[i])]
  IN  SelectSeq(words, Worker_keepWord)

\* a processor that throws on every article
processArticleThrows_always(article) == TRUE
\* article.content.toLowerCase() throws a TypeError when content is no string
processArticleThrows(article) == ~IsString(article.content)
processArticle(article) ==
  LET words == Worker_extractWords(article.content)
  IN  [articleId |-> article.id, words |-> words, wordCount |-> Len(words)]

(***************************************************************************)
(* The tokenizer of the main thread (TextAnalyzer).                        *)
(***************************************************************************)
STOP_WORDS ==
  {
    <<"a">>, <<"a","n">>, <<"t","h","e">>, <<"i","n">>,
    <<"o","n">>, <<"a","t">>, <<"b","y">>, <<"f","o","r">>,
    <<"w","i","t","h">>, <<"w","i","t","h","o","u","t">>, <<"t","o">>, <<"f","r","o","m">>,
    <<"o","f">>, <<"a","b","o","u","t">>, <<"u","n","d","e","r">>, <<"o","v","e","r">>,
    <<"t","h","r","o","u","g","h">>, <<"b","e","t","w","e","e","n">>, <<"a","m","o","n","g">>, <<"d","u","r","i","n","g">>,
    <<"b","e","f","o","r","e">>, <<"a","f","t","e","r">>, <<"a","b","o","v","e">>, <<"b","e","l","o","w">>,
    <<"u","p">>, <<"d","o","w","n">>, <<"i","n","t","o">>, <<"o","n","t","o">>,
    <<"u","p","o","n">>, <<"w","i","t","h","i","n">>, <<"a","g","a","i","n","s","t">>, <<"a","n","d">>,
    <<"o","r">>, <<"b","u","t">>, <<"n","o","r">>, <<"s","o">>,
    <<"y","e","t">>, <<"b","e","c","a","u","s","e">>, <<"a","l","t","h","o","u","g","h">>, <<"w","h","i","l","e">>,
    <<"s","i","n","c","e">>, <<"u","n","l","e","s","s">>, <<"u","n","t","i","l">>, <<"i","f">>,
    <<"w","h","e","n">>, <<"w","h","e","r","e">>, <<"w","h","y">>, <<"h","o","w">>,
    <<"i">>, <<"y","o","u">>, <<"h","e">>, <<"s","h","e">>,
    <<"i","t">>, <<"w","e">>, <<"t","h","e","y">>, <<"m","e">>,
    <<"h","i","m">>, <<"h","e","r">>, <<"u","s">>, <<"t","h","e","m">>,
    <<"m","y">>, <<"y","o","u","r">>, <<"h","i","s">>, <<"i","t","s">>,
    <<"o","u","r">>, <<"t","h","e","i","r">>, <<"m","i","n","e">>, <<"y","o","u","r","s">>,
    <<"o","u","r","s">>, <<"t","h","i","s">>, <<"t","h","a","t">>, <<"t","h","e","s","e">>,
    <<"t","h","o","s","e">>, <<"w","h","o">>, <<"w","h","o","m">>, <<"w","h","o","s","e">>,
    <<"w","h","i","c","h">>, <<"w","h","a","t">>, <<"a","m">>, <<"i","s">>,
    <<"a","r","e">>, <<"w","a","s">>, <<"w","e","r","e">>, <<"b","e">>,
    <<"b","e","e","n">>, <<"b","e","i","n","g">>, <<"h","a","v","e">>, <<"h","a","s">>,
    <<"h","a","d">>, <<"d","o">>, <<"d","o","e","s">>, <<"d","i","d">>,
    <<"w","i","l","l">>, <<"w","o","u","l","d">>, <<"s","h","a","l","l">>, <<"s","h","o","u","l","d">>,
    <<"m","a","y">>, <<"m","i","g","h","t">>, <<"c","a","n">>, <<"c","o","u","l","d">>,
    <<"m","u","s","t">>, <<"n","o","t">>, <<"n","o">>, <<"y","e","s">>,
    <<"v","e","r","y">>, <<"t","o","o">>, <<"j","u","s","t">>, <<"o","n","l","y">>,
    <<"a","l","s","o">>, <<"h","e","r","e">>, <<"t","h","e","r","e">>, <<"n","o","w">>,
    <<"t","h","e","n">>, <<"t","o","d","a","y">>, <<"t","o","m","o","r","r","o","w">>, <<"y","e","s","t","e","r","d","a","y">>,
    <<"a","l","w","a","y","s">>, <<"n","e","v","e","r">>, <<"s","o","m","e","t","i","m","e","s">>, <<"o","f","t","e","n">>,
    <<"u","s","u","a","l","l","y">>, <<"a","g","a","i","n">>, <<"o","n","e">>, <<"t","w","o">>,
    <<"t","h","r","e","e">>, <<"f","o","u","r">>, <<"f","i","v","e">>, <<"s","i","x">>,
    <<"s","e","v","e","n">>, <<"e","i","g","h","t">>, <<"n","i","n","e">>, <<"t","e","n">>,
    <<"f","i","r","s","t">>, <<"s","e","c","o","n","d">>, <<"t","h","i","r","d">>, <<"l","a","s","t">>,
    <<"n","e","x","t">>, <<"a","n","o","t","h","e","r">>, <<"o","t","h","e","r">>, <<"s","o","m","e">>,
    <<"m","a","n","y">>, <<"f","e","w">>, <<"m","o","r","e">>, <<"m","o","s","t">>,
    <<"l","e","s","s">>, <<"a","l","l">>, <<"a","n","y">>, <<"e","a","c","h">>,
    <<"e","v","e","r","y">>, <<"b","o","t","h">>, <<"e","i","t","h","e","r">> }

\* CONTRACTION = /^(n't|'re|'ve|'ll|'d|'s|'m)$/i
CONTRACTION(w) ==
  toLowerCase(w) \in { <<"n","'","t">>, <<"'","r","e">>, <<"'","v","e">>,
                       <<"'","l","l">>, <<"'","d">>, <<"'","s">>, <<"'","m">> }
\* HYPHENATED = /^[a-zA-Z]+-[a-zA-Z]+$/
HYPHENATED(w) ==
  \E i \in 2..(Len(w) - 1) :
    /\ w[i] = "-"
    /\ \A j \in DOMAIN w : j # i => w[j] \in Letters

\* \r\n -> \n
RECURSIVE normalizeLineEndings(_)
normalizeLineEndings(s) ==
  LET pairs == { k \in 1..(Len(s) - 1) : s[k] = "\r" /\ s[k + 1] = "\n" }
  IN  IF pairs = {} THEN s
      ELSE LET i == CHOOSE k \in pairs : \A l \in pairs : k <= l
           IN  SubSeq(s, 1, i - 1) \o <<"\n">>
                 \o normalizeLineEndings(SubSeq(s, i + 2, Len(s)))
replaceTabs(s) == [i \in 1..Len(s) |-> IF s[i] = "\t" THEN " " ELSE s[i]]

TA_cleanText(text) ==
  trim(collapseWhitespace(replacePunctuation(replaceTabs(normalizeLineEndings(text)))))

splitIntoSentences(text) ==
  LET pieces == splitOnRuns(text, {".", "!", "?"})
      trimmed == [i \in 1..Len(pieces) |-> trim(pieces[i])]
      nonEmpty(sentence) == Len(sentence) > 0
  IN  SelectSeq(trimmed, nonEmpty)

cleanWord(word) ==
  LET quotes == {"'", "\""}
      w1 == IF word # <<>> /\ word[1] \in quotes THEN Tail(word) ELSE word
      w2 == IF w1 # <<>> /\ w1[Len(w1)] \in quotes THEN dropLast(w1, 1) ELSE w1
      w3 == IF w2 # <<>> /\ w2[Len(w2)] \in {".", ",", ";", ":", "!", "?"}
              THEN dropLast(w2, 1) ELSE w2
  IN  trim(w3)

\* a validity test that compares the word as written with the stop words
isValidWord_cased(word, minLength, includeStopWords) ==
  IF Len(word) < minLength THEN FALSE
  ELSE IF CONTRACTION(word) THEN FALSE
  ELSE IF ~VALID_WORD(word) /\ ~HYPHENATED(word) THEN FALSE
  ELSE IF ~includeStopWords /\ word \in STOP_WORDS THEN FALSE
  ELSE TRUE
isValidWord(word, minLength, includeStopWords) ==
  IF Len(word) < minLength THEN FALSE
  ELSE IF CONTRACTION(word) THEN FALSE
  ELSE IF ~VALID_WORD(word) /\ ~HYPHENATED(word) THEN FALSE
  ELSE IF ~includeStopWords /\ toLowerCase(word) \in STOP_WORDS THEN FALSE
  ELSE TRUE

\* sentence.split(/\s+/).filter(Boolean)
sentenceWords(sentence) ==
  LET nonEmpty(w) == w # <<>>
  IN  SelectSeq(splitOnRuns(sentence, {" ", "\t", "\n", "\r"}), nonEmpty)

RECURSIVE flatten(_)
flatten(seqs) == IF seqs = <<>> THEN <<>> ELSE Head(seqs) \o flatten(Tail(seqs))

\* the words extractWords computes when its cache has no entry for the text
computeWords(text, includeStopWords, minLength) ==
  LET sentences == splitIntoSentences(TA_cleanText(text))
      keep(word) == isValidWord(word, minLength, includeStopWords)
      ofSentence(sentence) ==
        LET words == sentenceWords(sentence)
            cleaned == [i \in 1..Len(words) |-> cleanWord(words[i])]
            kept == SelectSeq(cleaned, keep)
        IN  [i \in 1..Len(kept) |-> toLowerCase(kept[i])]
  IN  flatten([i \in 1..Len(sentences) |-> ofSentence(sentences[i])])

\* the key under which extractWords caches its result: the first 100
\* characters of the text and the options
CachePrefixLen == 100
wordsCacheKey(text, includeStopWords, minLength) ==
  [prefix |-> sliceTo(text, CachePrefixLen),
   includeStopWords |-> includeStopWords, minLength |-> minLength]

\* text.slice(0, 100) throws a TypeError when text is no string
extractWordsThrows(text) == ~IsString(text)
\* TextAnalyzer.extractWords(text, options) on a TextAnalyzer whose cache is
\* `cache` (a function from keys to word lists): the words returned
TA_extractWords(cache, text, includeStopWords, minLength) ==
  LET key == wordsCacheKey(text, includeStopWords, minLength)
  IN  IF key \in DOMAIN cache THEN cache[key]
      ELSE computeWords(text, includeStopWords, minLength)
\* ... and the cache it leaves
TA_cacheAfter(cache, text, includeStopWords, minLength) ==
  LET key == wordsCacheKey(text, includeStopWords, minLength)
  IN  IF key \in DOMAIN cache THEN cache
      ELSE [k \in DOMAIN cache \cup {key} |->
              IF k = key THEN computeWords(text, includeStopWords, minLength)
              ELSE cache[k]]

(***************************************************************************)
(* The stemmer (src/utils/stemmer.ts).                                     *)
(***************************************************************************)
VOWEL == {"a","e","i","o","u"}
CONSONANT == LowerLetters \ VOWEL

\* a step 1a without the rule for -sses and -ies
step1aRules_plural ==
  <<
    [suffix |-> <<"s","s">>, replacement |-> <<"s","s">>, condition |-> ""],
    [suffix |-> <<"s">>, replacement |-> <<>>, condition |-> ""] >>
step1aRules ==
  <<
    [suffix |-> <<"s","s","e","s">>, replacement |-> <<"s","s">>, condition |-> ""],
    [suffix |-> <<"i","e","s">>, replacement |-> <<"i">>, condition |-> ""],
    [suffix |-> <<"s","s">>, replacement |-> <<"s","s">>, condition |-> ""],
    [suffix |-> <<"s">>, replacement |-> <<>>, condition |-> ""] >>
step1bRules ==
  <<
    [suffix |-> <<"e","e","d">>, replacement |-> <<"e","e">>, condition |-> "m > 0"],
    [suffix |-> <<"e","d">>, replacement |-> <<>>, condition |-> "has_vowel"],
    [suffix |-> <<"i","n","g">>, replacement |-> <<>>, condition |-> "has_vowel"] >>
step1bPost ==
  <<
    [suffix |-> <<"a","t">>, replacement |-> <<"a","t","e">>, condition |-> ""],
    [suffix |-> <<"b","l">>, replacement |-> <<"b","l","e">>, condition |-> ""],
    [suffix |-> <<"i","z">>, replacement |-> <<"i","z","e">>, condition |-> ""] >>
step2Rules ==
  <<
    [suffix |-> <<"a","t","i","o","n","a","l">>, replacement |-> <<"a","t","e">>, condition |-> ""],
    [suffix |-> <<"t","i","o","n","a","l">>, replacement |-> <<"t","i","o","n">>, condition |-> ""],
    [suffix |-> <<"e","n","c","i">>, replacement |-> <<"e","n","c","e">>, condition |-> ""],
    [suffix |-> <<"a","n","c","i">>, replacement |-> <<"a","n","c","e">>, condition |-> ""],
    [suffix |-> <<"i","z","e","r">>, replacement |-> <<"i","z","e">>, condition |-> ""],
    [suffix |-> <<"a","b","l","i">>, replacement |-> <<"a","b","l","e">>, condition |-> ""],
    [suffix |-> <<"a","l","l","i">>, replacement |-> <<"a","l">>, condition |-> ""],
    [suffix |-> <<"e","n","t","l","i">>, replacement |-> <<"e","n","t">>, condition |-> ""],
    [suffix |-> <<"e","l","i">>, replacement |-> <<"e">>, condition |-> ""],
    [suffix |-> <<"o","u","s","l","i">>, replacement |-> <<"o","u","s">>, condition |-> ""],
    [suffix |-> <<"i","z","a","t","i","o","n">>, replacement |-> <<"i","z","e">>, condition |-> ""],
    [suffix |-> <<"a","t","i","o","n">>, replacement |-> <<"a","t","e">>, condition |-> ""],
    [suffix |-> <<"a","t","o","r">>, replacement |-> <<"a","t","e">>, condition |-> ""],
    [suffix |-> <<"a","l","i","s","m">>, replacement |-> <<"a","l">>, condition |-> ""],
    [suffix |-> <<"i","v","e","n","e","s","s">>, replacement |-> <<"i","v","e">>, condition |-> ""],
    [suffix |-> <<"f","u","l","n","e","s","s">>, replacement |-> <<"f","u","l">>, condition |-> ""],
    [suffix |-> <<"o","u","s","n","e","s","s">>, replacement |-> <<"o","u","s">>, condition |-> ""],
    [suffix |-> <<"a","l","i","t","i">>, replacement |-> <<"a","l">>, condition |-> ""],
    [suffix |-> <<"i","v","i","t","i">>, replacement |-> <<"i","v","e">>, condition |-> ""],
    [suffix |-> <<"b","i","l","i","t","i">>, replacement |-> <<"b","l","e">>, condition |-> ""] >>
step3Rules ==
  <<
    [suffix |-> <<"i","c","a","t","e">>, replacement |-> <<"i","c">>, condition |-> ""],
    [suffix |-> <<"a","t","i","v","e">>, replacement |-> <<>>, condition |-> ""],
    [suffix |-> <<"a","l","i","z","e">>, replacement |-> <<"a","l">>, condition |-> ""],
    [suffix |-> <<"i","c","i","t","i">>, replacement |-> <<"i","c">>, condition |-> ""],
    [suffix |-> <<"i","c","a","l">>, replacement |-> <<"i","c">>, condition |-> ""],
    [suffix |-> <<"f","u","l">>, replacement |-> <<>>, condition |-> ""],
    [suffix |-> <<"n","e","s","s">>, replacement |-> <<>>, condition |-> ""] >>
step4Rules ==
  <<
    [suffix |-> <<"a","l">>, replacement |-> <<>>, condition |-> ""],
    [suffix |-> <<"a","n","c","e">>, replacement |-> <<>>, condition |-> ""],
    [suffix |-> <<"e","n","c","e">>, replacement |-> <<>>, condition |-> ""],
    [suffix |-> <<"e","r">>, replacement |-> <<>>, condition |-> ""],
    [suffix |-> <<"i","c">>, replacement |-> <<>>, condition |-> ""],
    [suffix |-> <<"a","b","l","e">>, replacement |-> <<>>, condition |-> ""],
    [suffix |-> <<"i","b","l","e">>, replacement |-> <<>>, condition |-> ""],
    [suffix |-> <<"a","n","t">>, replacement |-> <<>>, condition |-> ""],
    [suffix |-> <<"e","m","e","n","t">>, replacement |-> <<>>, condition |-> ""],
    [suffix |-> <<"m","e","n","t">>, replacement |-> <<>>, condition |-> ""],
    [suffix |-> <<"e","n","t">>, replacement |-> <<>>, condition |-> ""],
    [suffix |-> <<"i","o","n">>, replacement |-> <<>>, condition |-> "s_or_t"],
    [suffix |-> <<"o","u">>, replacement |-> <<>>, condition |-> ""],
    [suffix |-> <<"i","s","m">>, replacement |-> <<>>, condition |-> ""],
    [suffix |-> <<"a","t","e">>, replacement |-> <<>>, condition |-> ""],
    [suffix |-> <<"i","t","i">>, replacement |-> <<>>, condition |-> ""],
    [suffix |-> <<"o","u","s">>, replacement |-> <<>>, condition |-> ""],
    [suffix |-> <<"i","v","e">>, replacement |-> <<>>, condition |-> ""],
    [suffix |-> <<"i","z","e">>, replacement |-> <<>>, condition |-> ""] >>

RECURSIVE stripLeadingConsonants(_)
stripLeadingConsonants(s) ==
  IF s # <<>> /\ Head(s) \in CONSONANT THEN stripLeadingConsonants(Tail(s)) ELSE s
\* the number of matches of /[aeiou][bcdfghjklmnpqrstvwxyz]/g after the
\* leading consonants are removed
measure(word) ==
  LET trimmed == stripLeadingConsonants(word)
  IN  Cardinality({ i \in 1..(Len(trimmed) - 1) :
                      trimmed[i] \in VOWEL /\ trimmed[i + 1] \in CONSONANT })
hasVowel(word) == \E i \in DOMAIN word : word[i] \in VOWEL
endsWithDoubleConsonant(word) ==
  IF Len(word) < 2 THEN FALSE
  ELSE /\ word[Len(word)] = word[Len(word) - 1]
       /\ word[Len(word)] \in CONSONANT
cvc(word) ==
  IF Len(word) < 3 THEN FALSE
  ELSE /\ word[Len(word) - 2] \in CONSONANT
       /\ word[Len(word) - 1] \in VOWEL
       /\ word[Len(word)] \in CONSONANT
       /\ word[Len(word)] \notin {"w", "x", "y"}

\* whether a rule whose pattern matches is applied
shouldApply(word, rule) ==
  LET stem == dropLast(word, Len(rule.suffix))
      m == measure(stem)
  IN  CASE rule.condition = "m > 0" -> m > 0
        [] rule.condition = "m > 1" -> m > 1
        [] rule.condition = "has_vowel" -> hasVowel(stem)
        [] rule.condition = "s_or_t" ->
             m > 1 /\ (endsWith(stem, <<"s">>) \/ endsWith(stem, <<"t">>))
        [] OTHER -> TRUE
\* the first rule, in table order, whose pattern matches and whose condition
\* holds rewrites the word; a matching rule whose condition fails is skipped
RECURSIVE applyRules(_, _)
applyRules(word, rules) ==
  IF rules = <<>> THEN word
  ELSE LET rule == Head(rules)
       IN  IF endsWith(word, rule.suffix) /\ shouldApply(word, rule)
             THEN dropLast(word, Len(rule.suffix)) \o rule.replacement
             ELSE applyRules(word, Tail(rules))

step1b(stemmed) ==
  LET after == applyRules(stemmed, step1bRules)
  IN  IF after # stemmed /\ Len(after) > 1
        THEN IF \/ endsWith(after, <<"a","t">>) \/ endsWith(after, <<"b","l">>)
                \/ endsWith(after, <<"i","z">>)
               THEN applyRules(after, step1bPost)
             ELSE IF /\ endsWithDoubleConsonant(after)
                     /\ after[Len(after)] \notin {"l", "s", "z"}
               THEN dropLast(after, 1)
             ELSE IF measure(after) = 1 /\ cvc(after)
               THEN after \o <<"e">>
             ELSE after
        ELSE after
step2(stemmed) ==
  IF measure(stemmed) > 0 THEN applyRules(stemmed, step2Rules) ELSE stemmed
step3(stemmed) ==
  IF measure(stemmed) > 0 THEN applyRules(stemmed, step3Rules) ELSE stemmed
step4(stemmed) ==
  IF measure(stemmed) > 1 THEN applyRules(stemmed, step4Rules) ELSE stemmed
step5(stemmed) ==
  LET a == IF measure(stemmed) > 1
             THEN IF endsWith(stemmed, <<"e">>) THEN dropLast(stemmed, 1) ELSE stemmed
           ELSE IF measure(stemmed) = 1 /\ ~cvc(stemmed) /\ endsWith(stemmed, <<"e">>)
             THEN dropLast(stemmed, 1)
           ELSE stemmed
  IN  IF measure(a) > 1 /\ endsWithDoubleConsonant(a) /\ endsWith(a, <<"l">>)
        THEN dropLast(a, 1)
        ELSE a

stemWord(word) ==
  IF Len(word) <= 2 THEN word
  ELSE step5(step4(step3(step2(step1b(applyRules(toLowerCase(word), step1aRules))))))

(***************************************************************************)
(* Aggregation.  A Map is a sequence of entries in insertion order; the    *)
(* article set of an entry is a sequence of ids in insertion order.        *)
(***************************************************************************)
RECURSIVE sumFrequency(_)
sumFrequency(entries) ==
  IF entries = <<>> THEN 0
  ELSE Head(entries).frequency + sumFrequency(Tail(entries))

\* Array.prototype.sort((a, b) => b.frequency - a.frequency): a stable sort
\* a sort that places an entry before the entries of its frequency
RECURSIVE insertByFrequency_unstable(_, _)
insertByFrequency_unstable(sorted, e) ==
  IF sorted = <<>> THEN <<e>>
  ELSE IF Head(sorted).frequency > e.frequency
    THEN <<Head(sorted)>> \o insertByFrequency_unstable(Tail(sorted), e)
    ELSE <<e>> \o sorted
RECURSIVE insertByFrequency(_, _)
insertByFrequency(sorted, e) ==
  IF sorted = <<>> THEN <<e>>
  ELSE IF Head(sorted).frequency >= e.frequency
    THEN <<Head(sorted)>> \o insertByFrequency(Tail(sorted), e)
    ELSE <<e>> \o sorted
RECURSIVE sortByFrequency(_)
sortByFrequency(entries) ==
  IF entries = <<>> THEN <<>>
  ELSE insertByFrequency(sortByFrequency(SubSeq(entries, 1, Len(entries) - 1)),
                         entries[Len(entries)])

\* the body of words.forEach in processArticles (main thread)
countWord(wordFrequency, word, articleId) ==
  LET cw == toLowerCase(word)
      stemmed == stemWord(cw)
  IN  IF \E i \in DOMAIN wordFrequency : wordFrequency[i].word = cw
        THEN [i \in DOMAIN wordFrequency |->
                IF wordFrequency[i].word = cw
                  THEN [wordFrequency[i] EXCEPT
                          !.frequency = @ + 1,
                          !.articles = IF includes(@, articleId) THEN @
                                       ELSE Append(@, articleId)]
                  ELSE wordFrequency[i]]
        ELSE Append(wordFrequency,
                    [word |-> cw, frequency |-> 1,
                     articles |-> <<articleId>>, stemmed |-> stemmed])
RECURSIVE countWords(_, _, _)
countWords(wordFrequency, words, articleId) ==
  IF words = <<>> THEN wordFrequency
  ELSE countWords(countWord(wordFrequency, Head(words), articleId),
                  Tail(words), articleId)

\* articles.forEach of processArticles on a TextAnalyzer whose cache is
\* `cache`: the map built, the cache left, and whether an article threw
RECURSIVE forEachArticle(_, _, _)
forEachArticle(articles, wordFrequency, cache) ==
  IF articles = <<>>
    THEN [throws |-> FALSE, wordFrequency |-> wordFrequency, cache |-> cache]
  ELSE LET article == Head(articles)
       IN  IF extractWordsThrows(article.content)
             THEN [throws |-> TRUE, wordFrequency |-> wordFrequency, cache |-> cache]
             ELSE forEachArticle(
                    Tail(articles),
                    countWords(wordFrequency,
                               TA_extractWords(cache, article.content, FALSE, 1),
                               article.id),
                    TA_cacheAfter(cache, article.content, FALSE, 1))
processArticles(articles, cache) ==
  LET r == forEachArticle(articles, <<>>, cache)
  IN  [throws |-> r.throws, cache |-> r.cache,
       words |-> IF r.throws THEN <<>> ELSE sortByFrequency(r.wordFrequency)]

\* the body of words.forEach in FrequencyAnalyzer.analyzeArticles (worker)
Worker_countWord(wordFrequency, word, articleId) ==
  LET stemmed == stemWord(word)
  IN  IF \E i \in DOMAIN wordFrequency : wordFrequency[i].word = word
        THEN [i \in DOMAIN wordFrequency |->
                IF wordFrequency[i].word = word
                  THEN [wordFrequency[i] EXCEPT
                          !.frequency = @ + 1,
                          !.articles = IF includes(@, articleId) THEN @
                                       ELSE Append(@, articleId)]
                  ELSE wordFrequency[i]]
        ELSE Append(wordFrequency,
                    [word |-> word, frequency |-> 1,
                     articles |-> <<articleId>>, stemmed |-> stemmed])
RECURSIVE Worker_countWords(_, _, _)
Worker_countWords(wordFrequency, words, articleId) ==
  IF words = <<>> THEN wordFrequency
  ELSE Worker_countWords(Worker_countWord(wordFrequency, Head(words), articleId),
                         Tail(words), articleId)
\* processedArticles.forEach of analyzeArticles: the map is the analyzer's
\* field, updated in place from whatever it holds
RECURSIVE buildFrequencyMap(_, _)
buildFrequencyMap(wordFrequency, processedArticles) ==
  IF processedArticles = <<>> THEN wordFrequency
  ELSE buildFrequencyMap(
         Worker_countWords(wordFrequency, Head(processedArticles).words,
                           Head(processedArticles).articleId),
         Tail(processedArticles))

\* FrequencyAnalyzer.optimizeWordList
DefaultMaxWords == 1000
keepInWordList(entry) == entry.frequency > 1 \/ Len(entry.articles) > 1
optimizeWordList(words, maxWords) ==
  sliceTo(SelectSeq(words, keepInWordList), maxWords)

\* BatchProcessor
BATCH_SIZE == 10
minOf(a, b) == IF a < b THEN a ELSE b
\* the percentage of the items that are left
progressOf_remaining(processed, totalItems) ==
  ((totalItems - processed) * 100) \div totalItems
\* the percentage reported after a batch, rounded down to an integer
progressOf(processed, totalItems) == (processed * 100) \div totalItems
\* The loop of processBatches from index i to its next suspension: it ends
\* by a yield (await of the timer), by returning, or by a processor throwing.
RECURSIVE processBatches(_, _, _, _)
processBatches(items, i, results, progress) ==
  IF i >= Len(items)
    THEN [pc |-> "return", i |-> i, results |-> results, progress |-> progress]
  ELSE LET batch == SubSeq(items, i + 1, minOf(i + BATCH_SIZE, Len(items)))
       IN  IF \E b \in DOMAIN batch : processArticleThrows(batch[b])
             THEN [pc |-> "throw", i |-> i, results |-> results, progress |-> progress]
           ELSE LET results2 == results \o [b \in DOMAIN batch |-> processArticle(batch[b])]
                    progress2 == Append(progress, progressOf(Len(results2), Len(items)))
                IN  IF i % (BATCH_SIZE * 5) = 0
                      THEN [pc |-> "yield", i |-> i, results |-> results2,
                            progress |-> progress2]
                      ELSE processBatches(items, i + BATCH_SIZE, results2, progress2)

(***************************************************************************)
(* Search matching and deep analysis (WordFrequencyService).               *)
(***************************************************************************)
\* new RegExp(term.replace(/\*/g, '.*'), 'i') for a term of letters,
\* apostrophes and wildcard markers: whether the pattern matches a prefix of s
RECURSIVE matchesPrefix(_, _)
matchesPrefix(pattern, s) ==
  IF pattern = <<>> THEN TRUE
  ELSE IF Head(pattern) = "*"
    THEN \E k \in 0..Len(s) : matchesPrefix(Tail(pattern), SubSeq(s, k + 1, Len(s)))
    ELSE /\ s # <<>>
         /\ toLowerCaseChar(Head(pattern)) = toLowerCaseChar(Head(s))
         /\ matchesPrefix(Tail(pattern), Tail(s))
\* regex.test(s): the pattern is not anchored
wildcardTest(term, s) ==
  \E i \in 1..(Len(s) + 1) : matchesPrefix(term, SubSeq(s, i, Len(s)))
\* s.includes(sub) for strings
includesString(s, sub) ==
  \E i \in 1..(Len(s) - Len(sub) + 1) : SubSeq(s, i, i + Len(sub) - 1) = sub

\* an intelligent mode that returns the variants of the term only
findWordMatches_variants(term, words, mode) ==
  LET lower == toLowerCase(term)
      wildcard(entry) == wildcardTest(term, entry.word)
      exact(entry) == entry.word = lower
      intelligent(entry) ==
        /\ entry.word # lower
        /\ \/ entry.stemmed = stemWord(lower)
           \/ includesString(entry.word, lower)
  IN  IF includes(term, "*") THEN SelectSeq(words, wildcard)
      ELSE IF mode = "exact" THEN SelectSeq(words, exact)
      ELSE SelectSeq(words, intelligent)
findWordMatches(term, words, mode) ==
  LET lower == toLowerCase(term)
      wildcard(entry) == wildcardTest(term, entry.word)
      exact(entry) == entry.word = lower
      intelligent(entry) ==
        \/ entry.word = lower
        \/ entry.stemmed = stemWord(lower)
        \/ includesString(entry.word, lower)
  IN  IF includes(term, "*") THEN SelectSeq(words, wildcard)
      ELSE IF mode = "exact" THEN SelectSeq(words, exact)
      ELSE SelectSeq(words, intelligent)

\* the number of values Math.random() takes: r / RandomChoices for r below it
RandomChoices == 2
maxOf(a, b) == IF a > b THEN a ELSE b
\* Math.max(1, Math.floor(frequency * (0.5 + Math.random() * 0.5))): the count
\* of a period of the trend, for the random draw r / RandomChoices
generateFrequencyTrend(frequency, r) ==
  maxOf(1, (frequency * (RandomChoices + r)) \div (2 * RandomChoices))
\* no analysis (null)
NoAnalysis ==
  [definition |-> <<>>, mainMatch |-> <<>>, frequency |-> 0, articles |-> <<>>,
   frequencyTrend |-> 0]
\* the part of performWordAnalysis after the word list is there: the analysis
\* of `word` built from matches[0]; the mock definition is a text about the
\* word as it was passed, the trend is the random draw r
wordAnalysisOf(word, allWords_, articles, r) ==
  LET mainMatch == findWordMatches(word, allWords_, "intelligent")[1]
      inMain(article) == includes(mainMatch.articles, article.id)
      matched == SelectSeq(articles, inMain)
  IN  [definition |-> word, mainMatch |-> mainMatch.word,
       frequency |-> mainMatch.frequency,
       articles |-> [i \in 1..Len(matched) |-> matched[i].id],
       frequencyTrend |-> generateFrequencyTrend(mainMatch.frequency, r)]

(***************************************************************************)
(* State.                                                                  *)
(***************************************************************************)
VARIABLES
  corpus,             \* mockArticles: the documents the engine is given
  worker,             \* service.worker # null
  wordCache,          \* service.wordCache
  analysisCache,      \* service.analysisCache
  taCache,            \* textAnalyzer.cache
  onmessage,          \* service.worker.onmessage: the call whose handler is set
  timers,             \* the calls whose 30 s timeout is armed
  aaCalls,            \* the invocations of analyzeAllArticles, in call order
  lastWriter,         \* the invocation that last wrote wordCache (0: none)
  clearedSince,       \* clearCache was called and no aggregation started since
  isLoading, isInitialized, error, allWords, wordAnalysisCache,   \* the store
  tasks,              \* the store calls, in call order
  micro,              \* the microtask queue of the main thread
  wInbox,             \* messages posted to the worker, not yet handled
  wTimers,            \* worker jobs suspended at a yield, in timer order
  wJobs,              \* the worker's jobs
  wordFrequency,      \* analyzer.wordFrequency of the worker
  mInbox,             \* messages posted by the worker, not yet handled
  aggCorpus, outMain, outWorker,  \* the two aggregation paths side by side
  input, output,      \* the arguments and the result of the last function call
  isSearching, searchResults, currentSearch, hasSearched, searchHistory
                      \* the store's search state (searchResults: results)

svcVars == <<wordCache, analysisCache, taCache, onmessage, timers, aaCalls,
             lastWriter, clearedSince>>
storeVars == <<isLoading, isInitialized, error, allWords, wordAnalysisCache>>
workerVars == <<wInbox, wTimers, wJobs, wordFrequency, mInbox>>
aggVars == <<aggCorpus, outMain, outWorker>>
pureVars == <<input, output>>
searchVars == <<isSearching, searchResults, currentSearch, hasSearched, searchHistory>>
vars == <<corpus, worker, svcVars, storeVars, tasks, micro, workerVars, aggVars,
          pureVars, searchVars>>

NULL == "null"
\* no function was called yet
NoCall == [fn |-> "none"]
PureIdle == input = NoCall /\ output = NoCall
\* the refs of the store as they are created (currentSearch: the empty
\* sequence is null, a sequence of one SearchOptions is that value)
SearchIdle ==
  /\ isSearching = FALSE
  /\ searchResults = <<>>
  /\ currentSearch = <<>>
  /\ hasSearched = FALSE
  /\ searchHistory = <<>>
EmptyMap == [k \in {} |-> <<>>]
CACHE_KEY == "all_articles"
\* map.set(key, value)
MapSet(map, key, value) ==
  [k \in DOMAIN map \cup {key} |-> IF k = key THEN value ELSE map[k]]

\* how a promise settled: fulfilled with a word list or an analysis, or
\* rejected with an error message
Fulfilled(words, analysis) ==
  [ok |-> TRUE, words |-> words, analysis |-> analysis, err |-> ""]
Rejected(message) ==
  [ok |-> FALSE, words |-> <<>>, analysis |-> NoAnalysis, err |-> message]
NoOutcome == Rejected("")

ERR_ANALYZE == "Failed to analyze word frequency"
ERR_TIMEOUT == "Worker timeout"
ERR_WORKER == "TypeError"
ERR_NOT_FOUND == "Word not found in corpus"
ERR_WORD == "Failed to analyze word"
ERR_SEARCH == "Failed to search words"
ERR_QUERY == "Search query is required"

(***************************************************************************)
(* Inputs.                                                                 *)
(***************************************************************************)
IdSeq == <<"1", "2", "3", "4", "5">>
Doc(i, content) == [id |-> IdSeq[i], content |-> content]

T_dog == <<"d","o","g">>
T_Dog == <<"D","o","g">>
\* "The dog barks. Dog more"
Text_A ==
  <<"T","h","e"," ","d","o","g"," ","b","a","r","k","s","."," ","D","o","g"," ","m","o","r","e">>
\* "A fox, dog"
Text_B == <<"A"," ","f","o","x",","," ","d","o","g">>
Corpus_two == <<Doc(1, Text_A), Doc(2, Text_B)>>
Corpus_malformed == <<Doc(1, Text_A), Doc(2, undefined)>>
MainCorpora == {Corpus_two, Corpus_malformed}
WellFormed(articles) == \A i \in DOMAIN articles : IsString(articles[i].content)
AnalyzeWords == {T_dog, T_Dog}

\* the number of asynchronous store calls of a run, and of clearCache calls
MaxCalls == 2
MaxClears == 1
IsClear(task) == task.kind = "clearCache"
IsAsync(task) == task.kind # "clearCache"

(***************************************************************************)
(* Search (WordFrequencyService.searchWords and what it calls).            *)
(***************************************************************************)
\* stopWords of the service: the same words as the worker's STOP_WORDS
stopWords == STOP_WORDS_Worker

\* query.match(/"([^"]+)"/g) with the quotes sliced off: the quoted phrases
RECURSIVE phraseMatches(_)
phraseMatches(query) ==
  LET closes(i, j) ==
        /\ query[j] = "\""
        /\ \A k \in (i + 1)..(j - 1) : query[k] # "\""
      opens == { i \in DOMAIN query :
                   query[i] = "\"" /\ \E j \in (i + 2)..Len(query) : closes(i, j) }
  IN  IF opens = {} THEN <<>>
      ELSE LET i == CHOOSE k \in opens : \A l \in opens : k <= l
               j == CHOOSE k \in (i + 2)..Len(query) : closes(i, k)
           IN  <<SubSeq(query, i + 1, j - 1)>>
                 \o phraseMatches(SubSeq(query, j + 1, Len(query)))

\* a parser that looks for the wildcard marker before it looks for phrases
parseSearchQuery_wildcardFirst(query, mode) ==
  LET phrases == phraseMatches(query)
      nonEmpty(term) == Len(term) > 0
      terms == SelectSeq(splitOnRuns(query, {" ", "\t", "\n", "\r"}), nonEmpty)
  IN  IF includes(query, "*") THEN <<query>>
      ELSE IF phrases # <<>> THEN phrases
      ELSE IF mode = "intelligent"
        THEN flatten([i \in 1..Len(terms) |-> <<terms[i], stemWord(terms[i])>>])
      ELSE terms
parseSearchQuery(query, mode) ==
  LET phrases == phraseMatches(query)
      nonEmpty(term) == Len(term) > 0
      terms == SelectSeq(splitOnRuns(query, {" ", "\t", "\n", "\r"}), nonEmpty)
  IN  IF phrases # <<>> THEN phrases
      ELSE IF includes(query, "*") THEN <<query>>
      ELSE IF mode = "intelligent"
        THEN flatten([i \in 1..Len(terms) |-> <<terms[i], stemWord(terms[i])>>])
      ELSE terms

applyFilters(words, filters) ==
  LET longEnough(entry) ==
        filters.minLength > 1 => Len(entry.word) >= filters.minLength
      uncommon(entry) == filters.excludeCommon => entry.word \notin stopWords
      inSome(entry, ids) == \E a \in DOMAIN entry.articles : entry.articles[a] \in ids
      passes(entry, filter) ==
        CASE filter = "recent" -> inSome(entry, {"1", "2", "3"})
          [] filter = "popular" -> entry.frequency > 2
          [] filter = "bookmarked" -> inSome(entry, {"1", "4"})
          [] OTHER -> TRUE
      inArticles(entry) ==
        Len(filters.articles) > 0 =>
          \E f \in DOMAIN filters.articles : passes(entry, filters.articles[f])
      keep(entry) == longEnough(entry) /\ uncommon(entry) /\ inArticles(entry)
  IN  SelectSeq(words, keep)

\* new RegExp(`\\b${word}\\b`, 'gi') for a word of letters, apostrophes,
\* spaces and *: a * repeats the character before it, and a * with nothing
\* to repeat is a SyntaxError
regexThrows(word) ==
  \/ word # <<>> /\ word[1] = "*"
  \/ \E i \in 1..(Len(word) - 1) : word[i] = "*" /\ word[i + 1] = "*"
RECURSIVE regexElements(_)
regexElements(word) ==
  IF word = <<>> THEN <<>>
  ELSE IF Len(word) >= 2 /\ word[2] = "*"
    THEN <<[char |-> word[1], star |-> TRUE]>> \o regexElements(SubSeq(word, 3, Len(word)))
    ELSE <<[char |-> word[1], star |-> FALSE]>> \o regexElements(Tail(word))
\* \b at offset pos of s: exactly one of the characters around it is a word
\* character
wordBoundary(s, pos) ==
  (pos \in DOMAIN s /\ IsWordChar(s[pos]))
    # ((pos + 1) \in DOMAIN s /\ IsWordChar(s[pos + 1]))
\* the offset at which a match of the elements and the closing \b that starts
\* at offset pos ends, -1 when there is none; a repetition is greedy
RECURSIVE matchFrom(_, _, _)
matchFrom(elements, s, pos) ==
  IF elements = <<>> THEN (IF wordBoundary(s, pos) THEN pos ELSE -1)
  ELSE LET e == Head(elements)
           same(i) == i \in DOMAIN s /\ toLowerCaseChar(s[i]) = toLowerCaseChar(e.char)
           runs == { k \in 0..(Len(s) - pos) : \A i \in (pos + 1)..(pos + k) : same(i) }
           ends == { k \in runs : matchFrom(Tail(elements), s, pos + k) # -1 }
       IN  IF e.star
             THEN IF ends = {} THEN -1
                  ELSE matchFrom(Tail(elements), s,
                                 pos + (CHOOSE k \in ends : \A l \in ends : l <= k))
           ELSE IF same(pos + 1) THEN matchFrom(Tail(elements), s, pos + 1)
           ELSE -1
\* regex.test(s) of a regular expression with the g flag: the search starts
\* at lastIndex, a match leaves lastIndex at its end, a failure resets it
regexTest(word, s, lastIndex) ==
  LET starts == { p \in lastIndex..Len(s) :
                    wordBoundary(s, p) /\ matchFrom(regexElements(word), s, p) # -1 }
  IN  IF starts = {} THEN [found |-> FALSE, lastIndex |-> 0]
      ELSE [found |-> TRUE,
            lastIndex |-> matchFrom(regexElements(word), s,
                                    CHOOSE p \in starts : \A q \in starts : p <= q)]
\* sentences.forEach of extractContexts: the one regex object is tested on
\* every sentence in turn
RECURSIVE testSentences(_, _, _, _)
testSentences(sentences, word, lastIndex, contexts) ==
  IF sentences = <<>> THEN contexts
  ELSE LET r == regexTest(word, Head(sentences), lastIndex)
       IN  testSentences(Tail(sentences), word, r.lastIndex,
                         IF r.found THEN Append(contexts, trim(Head(sentences)))
                         ELSE contexts)
extractContexts(content, word) ==
  sliceTo(testSentences(splitOnRuns(content, {".", "!", "?"}), word, 0, <<>>), 3)

\* articleIds of buildSearchResult: a Set filled in the order of the matches
RECURSIVE addArticleIds(_, _)
addArticleIds(ids, more) ==
  IF more = <<>> THEN ids
  ELSE addArticleIds(IF includes(ids, Head(more)) THEN ids ELSE Append(ids, Head(more)),
                     Tail(more))
RECURSIVE articleIdsOf(_, _)
articleIdsOf(ids, matches) ==
  IF matches = <<>> THEN ids
  ELSE articleIdsOf(addArticleIds(ids, Head(matches).articles), Tail(matches))
\* the articles of mockArticles the ids name, in the order of the ids
RECURSIVE findArticles(_, _)
findArticles(ids, articles) ==
  IF ids = <<>> THEN <<>>
  ELSE LET found(article) == article.id = Head(ids)
       IN  sliceTo(SelectSeq(articles, found), 1) \o findArticles(Tail(ids), articles)
\* whether buildSearchResult throws: the regular expression of
\* extractContexts cannot be built, or a content is no string
buildSearchResultThrows(term, matches, articles) ==
  LET found == findArticles(articleIdsOf(<<>>, matches), articles)
  IN  /\ found # <<>>
      /\ regexThrows(term) \/ ~IsString(found[1].content)
\* the SearchResult; `matched` is not a field of it: the words of the
\* entries it was built from
buildSearchResult(term, matches, articles) ==
  LET found == findArticles(articleIdsOf(<<>>, matches), articles)
      matchCount(articleId) ==
        LET has(match) == includes(match.articles, articleId)
        IN  sumFrequency(SelectSeq(matches, has))
      articleMatches ==
        [a \in DOMAIN found |->
           [articleId |-> found[a].id, matches |-> matchCount(found[a].id),
            contexts |-> extractContexts(found[a].content, term)]]
  IN  [word |-> term,
       frequency |-> sumFrequency(matches),
       articles |-> articleMatches,
       contexts |-> sliceTo(flatten([a \in DOMAIN articleMatches |->
                                       articleMatches[a].contexts]), 10),
       matched |-> [m \in DOMAIN matches |-> matches[m].word]]

\* the loop of searchWords over the terms: whether it threw, the results so
\* far, and the number of awaits of buildSearchResult it went through
RECURSIVE searchLoop(_, _, _, _, _, _)
searchLoop(terms, allWords_, options, articles, found, awaits) ==
  IF terms = <<>>
    THEN [throws |-> FALSE, results |-> sortByFrequency(found), awaits |-> awaits]
  ELSE LET filteredMatches ==
             applyFilters(findWordMatches(Head(terms), allWords_, options.mode),
                          options.filters)
       IN  IF Len(filteredMatches) = 0
             THEN searchLoop(Tail(terms), allWords_, options, articles, found, awaits)
           ELSE IF buildSearchResultThrows(Head(terms), filteredMatches, articles)
             THEN [throws |-> TRUE, results |-> <<>>, awaits |-> awaits + 1]
           ELSE searchLoop(Tail(terms), allWords_, options, articles,
                           Append(found, buildSearchResult(Head(terms), filteredMatches,
                                                           articles)),
                           awaits + 1)
\* searchWords after await analyzeAllArticles returned allWords_
searchAll(allWords_, options, articles) ==
  searchLoop(parseSearchQuery(options.query, options.mode), allWords_, options,
             articles, <<>>, 0)

(***************************************************************************)
(* WordFrequencyService.analyzeAllArticles                                 *)
(***************************************************************************)
NewTask(kind, word) ==
  [kind |-> kind, word |-> word, pc |-> "start", aa |-> 0,
   ret |-> NoOutcome, result |-> NoOutcome, awaits |-> 0]
NewCall(t, how) ==
  [task |-> t, how |-> how, pred |-> lastWriter, afterClear |-> clearedSince,
   promise |-> "none", settled |-> FALSE, outcome |-> NoOutcome, cause |-> ""]
\* the function the result of analyzeAllArticles is awaited by
awaiterOf(kind) ==
  IF kind = "initialize" THEN "initialize"
  ELSE IF kind = "searchWords_initialize" THEN "initialize_inSearch"
  ELSE IF kind = "searchWords" THEN "service_searchWords"
  ELSE "performWordAnalysis"

\* a service that never finds the word list in its cache
cacheHit_never(cache) == FALSE
\* if (this.wordCache.has(cacheKey))
cacheHit(cache) == CACHE_KEY \in DOMAIN cache
\* a catch clause that throws the error it caught
analyzeCatch_rethrow(err) == err
\* catch (error) { throw new Error('Failed to analyze word frequency') }
analyzeCatch(err) == ERR_ANALYZE

\* analyzeAllArticles of call id by task t, when the word list is cached
AA_cached(t, id, base, mq, out) ==
  /\ aaCalls' = Append(aaCalls,
       [NewCall(t, "cache") EXCEPT !.settled = TRUE, !.outcome = out])
  /\ tasks' = [base EXCEPT ![t].pc = awaiterOf(base[t].kind),
                           ![t].aa = id, ![t].ret = out]
  /\ micro' = Append(mq, t)
  /\ UNCHANGED <<wordCache, taCache, onmessage, timers, lastWriter, wInbox>>
\* ... when there is a worker: processWithWorker up to the pending promise
AA_worker(t, id, base, mq) ==
  /\ aaCalls' = Append(aaCalls, [NewCall(t, "worker") EXCEPT !.promise = "pending"])
  /\ timers' = timers \cup {id}
  /\ onmessage' = id
  /\ wInbox' = Append(wInbox, id)
  /\ tasks' = [base EXCEPT ![t].pc = "processWithWorker", ![t].aa = id]
  /\ micro' = mq
  /\ UNCHANGED <<wordCache, taCache, lastWriter>>
\* ... when there is none: r is what processArticles(mockArticles) did
AA_inprocess(t, id, base, mq, r) ==
  /\ aaCalls' = Append(aaCalls,
       [NewCall(t, "inprocess") EXCEPT
          !.settled = TRUE,
          !.outcome = IF r.throws THEN Rejected(analyzeCatch(ERR_WORKER))
                      ELSE Fulfilled(r.words, NoAnalysis),
          !.cause = IF r.throws THEN "processing" ELSE ""])
  /\ taCache' = r.cache
  /\ wordCache' = IF r.throws THEN wordCache
                  ELSE MapSet(wordCache, CACHE_KEY, r.words)
  /\ lastWriter' = IF r.throws THEN lastWriter ELSE id
  /\ tasks' = [base EXCEPT
       ![t].pc = awaiterOf(base[t].kind),
       ![t].aa = id,
       ![t].ret = IF r.throws THEN Rejected(analyzeCatch(ERR_WORKER))
                  ELSE Fulfilled(r.words, NoAnalysis)]
  /\ micro' = Append(mq, t)
  /\ UNCHANGED <<onmessage, timers, wInbox>>

\* analyzeAllArticles called by task t, up to its first suspension; `base` is
\* the task list and mq the microtask queue the calling code leaves
AA_enter(t, base, mq) ==
  /\ clearedSince' = FALSE
  /\ IF cacheHit(wordCache)
       THEN AA_cached(t, Len(aaCalls) + 1, base, mq,
                      Fulfilled(wordCache[CACHE_KEY], NoAnalysis))
     ELSE IF worker
       THEN AA_worker(t, Len(aaCalls) + 1, base, mq)
     ELSE AA_inprocess(t, Len(aaCalls) + 1, base, mq,
                       processArticles(corpus, taCache))

\* the continuation of analyzeAllArticles after await processWithWorker
Resume_analyzeAllArticles(t) ==
  /\ micro # <<>> /\ Head(micro) = t
  /\ tasks[t].pc = "analyzeAllArticles"
  /\ LET id == tasks[t].aa
         ret == tasks[t].ret
         out == IF ret.ok THEN ret ELSE Rejected(analyzeCatch(ret.err))
     IN  /\ wordCache' = IF ret.ok THEN MapSet(wordCache, CACHE_KEY, ret.words)
                         ELSE wordCache
         /\ lastWriter' = IF ret.ok THEN id ELSE lastWriter
         /\ aaCalls' = [aaCalls EXCEPT ![id].settled = TRUE, ![id].outcome = out]
         /\ tasks' = [tasks EXCEPT ![t].pc = awaiterOf(tasks[t].kind), ![t].ret = out]
         /\ micro' = Append(Tail(micro), t)
  /\ UNCHANGED <<corpus, worker, analysisCache, taCache, onmessage, timers,
                 clearedSince, storeVars, workerVars, aggVars, pureVars, searchVars>>

\* setTimeout(() => reject(new Error('Worker timeout')), 30000) of call k fires
TimerFire(k) ==
  /\ micro = <<>>
  /\ k \in timers
  /\ timers' = timers \ {k}
  /\ IF aaCalls[k].promise = "pending"
       THEN /\ aaCalls' = [aaCalls EXCEPT ![k].promise = "rejected",
                                          ![k].cause = "timeout"]
            /\ tasks' = [tasks EXCEPT ![aaCalls[k].task].pc = "analyzeAllArticles",
                                      ![aaCalls[k].task].ret = Rejected(ERR_TIMEOUT)]
            /\ micro' = <<aaCalls[k].task>>
       ELSE UNCHANGED <<aaCalls, tasks, micro>>
  /\ UNCHANGED <<corpus, worker, wordCache, analysisCache, taCache, onmessage,
                 lastWriter, clearedSince, storeVars, workerVars, aggVars, pureVars, searchVars>>

\* this.worker.onmessage: the handler installed by the latest call handles the
\* next message of the worker
DeliverMessage ==
  /\ micro = <<>>
  /\ mInbox # <<>>
  /\ LET m == Head(mInbox)
         k == onmessage
         t == aaCalls[k].task
         settles == aaCalls[k].promise = "pending"
                    /\ m.type \in {"analysis_complete", "error"}
     IN  /\ mInbox' = Tail(mInbox)
         /\ timers' = timers \ {k}
         /\ IF settles
              THEN /\ aaCalls' = [aaCalls EXCEPT
                        ![k].promise = IF m.type = "error" THEN "rejected"
                                       ELSE "resolved",
                        ![k].cause = IF m.type = "error" THEN "processing" ELSE ""]
                   /\ tasks' = [tasks EXCEPT
                        ![t].pc = "analyzeAllArticles",
                        ![t].ret = IF m.type = "error" THEN Rejected(m.error)
                                   ELSE Fulfilled(m.data, NoAnalysis)]
                   /\ micro' = <<t>>
              ELSE UNCHANGED <<aaCalls, tasks, micro>>
  /\ UNCHANGED <<corpus, worker, wordCache, analysisCache, taCache, onmessage,
                 lastWriter, clearedSince, storeVars, wInbox, wTimers, wJobs,
                 wordFrequency, aggVars, pureVars, searchVars>>

(***************************************************************************)
(* The worker: self.onmessage, FrequencyAnalyzer.analyzeArticles           *)
(***************************************************************************)
ProgressUpdate(j, progress) ==
  [job |-> j, type |-> "progress_update", progress |-> progress,
   data |-> <<>>, error |-> ""]
AnalysisComplete(j, data) ==
  [job |-> j, type |-> "analysis_complete", progress |-> 0,
   data |-> data, error |-> ""]
ErrorMessage(j, message) ==
  [job |-> j, type |-> "error", progress |-> 0, data |-> <<>>, error |-> message]
ProgressUpdates(j, progress) ==
  [p \in DOMAIN progress |-> ProgressUpdate(j, progress[p])]

\* the rest of analyzeArticles after processBatches returned, and of the
\* handler after it: `built` is the analyzer's map after the words were counted
finishJob(j, built, r, updates) ==
  [suspended |-> FALSE, results |-> r.results, i |-> r.i,
   posted |-> Append(updates,
                AnalysisComplete(j, optimizeWordList(sortByFrequency(built),
                                                     DefaultMaxWords))),
   wordFrequency |-> built]
\* what the handler's job j does once processBatches came to r (a yield, a
\* throw or the return): the messages posted, the map left, and whether the
\* job is suspended
afterBatches(j, map, r, updates) ==
  IF r.pc = "yield"
    THEN [suspended |-> TRUE, results |-> r.results, i |-> r.i,
          posted |-> updates, wordFrequency |-> map]
  ELSE IF r.pc = "throw"
    THEN [suspended |-> FALSE, results |-> r.results, i |-> r.i,
          posted |-> Append(updates, ErrorMessage(j, ERR_WORKER)),
          wordFrequency |-> map]
  ELSE finishJob(j, buildFrequencyMap(map, r.results), r, updates)
withProgress(j, map, r) == afterBatches(j, map, r, ProgressUpdates(j, r.progress))
\* one run of the handler's job j from loop index i to its next suspension
runJob(j, i, results, map) ==
  withProgress(j, map, processBatches(corpus, i, results, <<>>))

\* the worker's step for job j, `run` being what the job did and `before`
\* the messages the handler posted before it
WorkerStep(j, run, before) ==
  /\ wordFrequency' = run.wordFrequency
  /\ mInbox' = mInbox \o before \o run.posted
  /\ wJobs' = MapSet(wJobs, j,
                 [suspended |-> run.suspended, i |-> run.i, results |-> run.results,
                  posted |-> (IF j \in DOMAIN wJobs THEN wJobs[j].posted ELSE <<>>)
                             \o before \o run.posted])
  /\ wTimers' = IF run.suspended THEN Append(SelectSeq(wTimers, LAMBDA k : k # j), j)
                ELSE SelectSeq(wTimers, LAMBDA k : k # j)

\* self.onmessage handles the next analyze_articles request, up to the
\* first await of a timer (or to its end); analyzeArticles clears the map
WorkerReceive ==
  /\ wInbox # <<>>
  /\ wInbox' = Tail(wInbox)
  /\ WorkerStep(Head(wInbox), runJob(Head(wInbox), 0, <<>>, <<>>),
                <<ProgressUpdate(Head(wInbox), 0)>>)
  /\ UNCHANGED <<corpus, worker, svcVars, storeVars, tasks, micro, aggVars, pureVars, searchVars>>

\* the timer of the oldest suspended job fires: its loop goes on
WorkerResume ==
  /\ wTimers # <<>>
  /\ WorkerStep(Head(wTimers),
                runJob(Head(wTimers), wJobs[Head(wTimers)].i + BATCH_SIZE,
                       wJobs[Head(wTimers)].results, wordFrequency),
                <<>>)
  /\ UNCHANGED <<corpus, worker, svcVars, storeVars, tasks, micro, wInbox, aggVars, pureVars, searchVars>>

(***************************************************************************)
(* The store (useWordFrequencyStore) and WordFrequencyService.getWordAnalysis *)
(***************************************************************************)
\* the value a store call resolved with when it has none (void, null)
NoValue == Fulfilled(<<>>, NoAnalysis)
Done(task, result) == [task EXCEPT !.pc = "done", !.result = result]

\* store.initialize() is called
CallInitialize ==
  /\ Len(SelectSeq(tasks, IsAsync)) < MaxCalls
  /\ LET t == Len(tasks) + 1
         task == NewTask("initialize", <<>>)
     IN  IF isInitialized
           THEN /\ tasks' = Append(tasks, Done(task, NoValue))
                /\ UNCHANGED <<svcVars, storeVars, micro, wInbox>>
           ELSE /\ isLoading' = TRUE
                /\ error' = NULL
                /\ AA_enter(t, Append(tasks, task), micro)
                /\ UNCHANGED <<analysisCache, isInitialized, allWords,
                               wordAnalysisCache>>
  /\ UNCHANGED <<corpus, worker, wTimers, wJobs, wordFrequency, mInbox, aggVars, pureVars, searchVars>>

\* a try block that resets the word list when the aggregation failed
initializeTry_resetting(ret) ==
  IF ret.ok THEN [allWords |-> ret.words, isInitialized |-> TRUE]
  ELSE [allWords |-> <<>>, isInitialized |-> FALSE]
\* try { allWords.value = await ...; isInitialized.value = true }: the
\* assignments are reached only when the await did not throw
initializeTry(ret) ==
  IF ret.ok THEN [allWords |-> ret.words, isInitialized |-> TRUE]
  ELSE [allWords |-> allWords, isInitialized |-> isInitialized]
\* the continuation of initialize after await analyzeAllArticles
Resume_initialize(t) ==
  /\ micro # <<>> /\ Head(micro) = t
  /\ tasks[t].pc = "initialize"
  /\ LET ret == tasks[t].ret
     IN  /\ allWords' = initializeTry(ret).allWords
         /\ isInitialized' = initializeTry(ret).isInitialized
         /\ error' = IF ret.ok THEN error ELSE ret.err
         /\ isLoading' = FALSE
         /\ tasks' = [tasks EXCEPT ![t] = Done(@, IF ret.ok THEN NoValue ELSE ret)]
  /\ micro' = Tail(micro)
  /\ UNCHANGED <<corpus, worker, svcVars, wordAnalysisCache, workerVars, aggVars, pureVars, searchVars>>

\* store.clearCache()
CallClearCache ==
  /\ Len(SelectSeq(tasks, IsClear)) < MaxClears
  /\ tasks' = Append(tasks, Done(NewTask("clearCache", <<>>), NoValue))
  /\ wordAnalysisCache' = EmptyMap
  /\ allWords' = <<>>
  /\ isInitialized' = FALSE
  /\ clearedSince' = TRUE
  /\ UNCHANGED <<corpus, worker, wordCache, analysisCache, taCache, onmessage,
                 timers, aaCalls, lastWriter, isLoading, error, micro,
                 workerVars, aggVars, pureVars, searchVars>>

\* store.getWordAnalysis(word) is called
CallGetWordAnalysis(word) ==
  /\ Len(SelectSeq(tasks, IsAsync)) < MaxCalls
  /\ LET t == Len(tasks) + 1
         task == NewTask("getWordAnalysis", word)
         cacheKey == toLowerCase(word)
     IN  IF word \in DOMAIN wordAnalysisCache
           THEN /\ tasks' = Append(tasks,
                      Done(task, Fulfilled(<<>>, wordAnalysisCache[word])))
                /\ UNCHANGED <<svcVars, micro, wInbox>>
         ELSE IF cacheKey \in DOMAIN analysisCache
           THEN /\ tasks' = Append(tasks,
                      [task EXCEPT !.pc = "store_getWordAnalysis",
                                   !.ret = Fulfilled(<<>>, analysisCache[cacheKey])])
                /\ micro' = Append(micro, t)
                /\ UNCHANGED <<svcVars, wInbox>>
         ELSE /\ AA_enter(t, Append(tasks, task), micro)
              /\ UNCHANGED analysisCache
  /\ UNCHANGED <<corpus, worker, storeVars, wTimers, wJobs, wordFrequency,
                 mInbox, aggVars, pureVars, searchVars>>

\* the continuation of performWordAnalysis after await analyzeAllArticles
Resume_performWordAnalysis(t) ==
  /\ micro # <<>> /\ Head(micro) = t
  /\ tasks[t].pc = "performWordAnalysis"
  /\ LET ret == tasks[t].ret
         word == tasks[t].word
         matches == findWordMatches(word, ret.words, "intelligent")
     IN  \E r \in 0..(RandomChoices - 1) :
           tasks' = [tasks EXCEPT
             ![t].pc = "service_getWordAnalysis",
             ![t].ret = IF ~ret.ok THEN ret
                        ELSE IF Len(matches) = 0 THEN Rejected(ERR_NOT_FOUND)
                        ELSE Fulfilled(<<>>, wordAnalysisOf(word, ret.words, corpus, r))]
  /\ micro' = Append(Tail(micro), t)
  /\ UNCHANGED <<corpus, worker, svcVars, storeVars, workerVars, aggVars, pureVars, searchVars>>

\* a service that passes the failure of performWordAnalysis on as it is
wordAnalysisCatch_rethrow(ret) == ret
\* catch (error) { throw new Error('Failed to analyze word') }
wordAnalysisCatch(ret) == Rejected(ERR_WORD)
\* the continuation of service.getWordAnalysis after await performWordAnalysis
Resume_service_getWordAnalysis(t) ==
  /\ micro # <<>> /\ Head(micro) = t
  /\ tasks[t].pc = "service_getWordAnalysis"
  /\ LET ret == tasks[t].ret
         cacheKey == toLowerCase(tasks[t].word)
     IN  /\ analysisCache' = IF ret.ok THEN MapSet(analysisCache, cacheKey, ret.analysis)
                             ELSE analysisCache
         /\ tasks' = [tasks EXCEPT
              ![t].pc = "store_getWordAnalysis",
              ![t].ret = IF ret.ok THEN ret ELSE wordAnalysisCatch(ret)]
  /\ micro' = Append(Tail(micro), t)
  /\ UNCHANGED <<corpus, worker, wordCache, taCache, onmessage, timers, aaCalls,
                 lastWriter, clearedSince, storeVars, workerVars, aggVars, pureVars, searchVars>>

\* the continuation of store.getWordAnalysis after await service.getWordAnalysis
Resume_store_getWordAnalysis(t) ==
  /\ micro # <<>> /\ Head(micro) = t
  /\ tasks[t].pc = "store_getWordAnalysis"
  /\ LET ret == tasks[t].ret
     IN  /\ wordAnalysisCache' = IF ret.ok
                                   THEN MapSet(wordAnalysisCache, tasks[t].word, ret.analysis)
                                   ELSE wordAnalysisCache
         /\ tasks' = [tasks EXCEPT ![t] = Done(@, IF ret.ok THEN ret ELSE NoValue)]
  /\ micro' = Tail(micro)
  /\ UNCHANGED <<corpus, worker, svcVars, isLoading, isInitialized, error,
                 allWords, workerVars, aggVars, pureVars, searchVars>>

(***************************************************************************)
(* The two aggregation paths as functions of the corpus.                   *)
(***************************************************************************)
\* the worker's answer to an analyze_articles request on a fresh analyzer:
\* the loop run through all its yields, then the map, the sort and the cut
RECURSIVE runBatches(_, _, _)
runBatches(articles, i, results) ==
  LET r == processBatches(articles, i, results, <<>>)
  IN  IF r.pc = "yield" THEN runBatches(articles, r.i + BATCH_SIZE, r.results)
      ELSE r
workerJob(articles) ==
  LET r == runBatches(articles, 0, <<>>)
  IN  IF r.pc = "throw" THEN [throws |-> TRUE, words |-> <<>>, tokens |-> 0]
      ELSE [throws |-> FALSE,
            words |-> optimizeWordList(
                        sortByFrequency(buildFrequencyMap(<<>>, r.results)),
                        DefaultMaxWords),
            tokens |-> sumFrequency(
                         [a \in DOMAIN r.results |->
                            [frequency |-> r.results[a].wordCount]])]
\* processArticles on a fresh TextAnalyzer, with the number of tokens its
\* extractWords returned over the articles
mainJob(articles) ==
  LET r == processArticles(articles, EmptyMap)
  IN  [throws |-> r.throws, words |-> r.words,
       tokens |-> IF r.throws THEN 0
                  ELSE sumFrequency(
                         [a \in DOMAIN articles |->
                            [frequency |->
                               Len(TA_extractWords(EmptyMap, articles[a].content,
                                                   FALSE, 1))]])]

(***************************************************************************)
(* The search session: store.searchWords, store.clearResults and           *)
(* WordFrequencyService.searchWords as asynchronous functions.  A search   *)
(* task is of kind "searchWords_initialize" while it awaits initialize()   *)
(* and of kind "searchWords" afterwards; its `word` is the SearchOptions.  *)
(***************************************************************************)
IsSearch(task) == task.kind \in {"searchWords_initialize", "searchWords"}
\* searchHistory keeps the last 20 searches
HistoryLimit == 20
addToSearchHistory(history, options) ==
  LET other(item) == ~(item.query = options.query /\ item.mode = options.mode)
  IN  sliceTo(<<options>> \o SelectSeq(history, other), HistoryLimit)
\* searchResults.map(...): SearchResult[] as WordEntry[]
toWordEntries(found) ==
  [i \in DOMAIN found |->
     [word |-> found[i].word, frequency |-> found[i].frequency,
      articles |-> [a \in DOMAIN found[i].articles |->
                      found[i].articles[a].articleId]]]

\* wordFrequencyService.searchWords(options) called by task t, up to its
\* first suspension: the query is validated before anything is awaited
service_searchWords(t, base, mq) ==
  IF trim(base[t].word.query) = <<>>
    THEN /\ tasks' = [base EXCEPT ![t].pc = "store_searchWords",
                                  ![t].ret = Rejected(ERR_QUERY)]
         /\ micro' = Append(mq, t)
         /\ UNCHANGED <<wordCache, taCache, onmessage, timers, aaCalls, lastWriter,
                        clearedSince, wInbox>>
    ELSE AA_enter(t, base, mq)

\* store.searchWords(options) is called
CallSearchWords(options) ==
  /\ Len(SelectSeq(tasks, IsAsync)) < MaxCalls
  /\ isSearching' = TRUE
  /\ error' = NULL
  /\ hasSearched' = TRUE
  /\ IF ~isInitialized
       THEN /\ isLoading' = TRUE
            /\ AA_enter(Len(tasks) + 1,
                        Append(tasks, NewTask("searchWords_initialize", options)), micro)
       ELSE /\ UNCHANGED isLoading
            /\ service_searchWords(Len(tasks) + 1,
                                   Append(tasks, NewTask("searchWords", options)), micro)
  /\ UNCHANGED <<corpus, worker, analysisCache, isInitialized, allWords,
                 wordAnalysisCache, wTimers, wJobs, wordFrequency, mInbox, aggVars,
                 pureVars, searchResults, currentSearch, searchHistory>>

\* the continuation of initialize after await analyzeAllArticles, when
\* initialize was called by searchWords
Resume_initialize_inSearch(t) ==
  /\ micro # <<>> /\ Head(micro) = t
  /\ tasks[t].pc = "initialize_inSearch"
  /\ LET ret == tasks[t].ret
     IN  /\ allWords' = initializeTry(ret).allWords
         /\ isInitialized' = initializeTry(ret).isInitialized
         /\ error' = IF ret.ok THEN error ELSE ret.err
         /\ isLoading' = FALSE
         /\ tasks' = [tasks EXCEPT
              ![t].pc = "searchWords_afterInitialize",
              ![t].ret = IF ret.ok THEN NoValue ELSE ret]
  /\ micro' = Append(Tail(micro), t)
  /\ UNCHANGED <<corpus, worker, svcVars, wordAnalysisCache, workerVars, aggVars,
                 pureVars, searchVars>>

\* a store that leaves the results of the search before in place when a
\* search fails
searchCatch_keeping(ret) ==
  [results |-> searchResults, error |-> ret.err]
\* catch (err) { error.value = err.message; results.value = [] }
searchCatch(ret) ==
  [results |-> <<>>, error |-> ret.err]
\* the continuation of store.searchWords after await initialize()
Resume_searchWords_afterInitialize(t) ==
  /\ micro # <<>> /\ Head(micro) = t
  /\ tasks[t].pc = "searchWords_afterInitialize"
  /\ IF tasks[t].ret.ok
       THEN /\ service_searchWords(t, [tasks EXCEPT ![t].kind = "searchWords"],
                                   Tail(micro))
            /\ UNCHANGED <<error, searchVars>>
       ELSE /\ error' = searchCatch(tasks[t].ret).error
            /\ searchResults' = searchCatch(tasks[t].ret).results
            /\ isSearching' = FALSE
            /\ tasks' = [tasks EXCEPT ![t] = Done(@, tasks[t].ret)]
            /\ micro' = Tail(micro)
            /\ UNCHANGED <<wordCache, taCache, onmessage, timers, aaCalls,
                           lastWriter, clearedSince, wInbox, currentSearch,
                           hasSearched, searchHistory>>
  /\ UNCHANGED <<corpus, worker, analysisCache, isLoading, isInitialized, allWords,
                 wordAnalysisCache, wTimers, wJobs, wordFrequency, mInbox, aggVars,
                 pureVars>>

\* searchWords of the service after await analyzeAllArticles: the loop over
\* the terms did r; it goes on to its first await of buildSearchResult, or
\* to its end
afterAnalyzeAll(t, ret, r) ==
  tasks' = [tasks EXCEPT
    ![t].pc = IF ret.ok /\ r.awaits > 0 THEN "buildSearchResult"
              ELSE "store_searchWords",
    ![t].awaits = IF ret.ok THEN r.awaits ELSE 0,
    ![t].ret = IF ret.ok /\ ~r.throws THEN Fulfilled(r.results, NoAnalysis)
               ELSE Rejected(ERR_SEARCH)]
Resume_service_searchWords(t) ==
  /\ micro # <<>> /\ Head(micro) = t
  /\ tasks[t].pc = "service_searchWords"
  /\ afterAnalyzeAll(t, tasks[t].ret,
                     searchAll(tasks[t].ret.words, tasks[t].word, corpus))
  /\ micro' = Append(Tail(micro), t)
  /\ UNCHANGED <<corpus, worker, svcVars, storeVars, workerVars, aggVars, pureVars,
                 searchVars>>
\* the continuation of the loop after an await of buildSearchResult
Resume_buildSearchResult(t) ==
  /\ micro # <<>> /\ Head(micro) = t
  /\ tasks[t].pc = "buildSearchResult"
  /\ tasks' = [tasks EXCEPT
       ![t].awaits = @ - 1,
       ![t].pc = IF tasks[t].awaits > 1 THEN "buildSearchResult"
                 ELSE "store_searchWords"]
  /\ micro' = Append(Tail(micro), t)
  /\ UNCHANGED <<corpus, worker, svcVars, storeVars, workerVars, aggVars, pureVars,
                 searchVars>>

\* the continuation of store.searchWords after await service.searchWords
Resume_store_searchWords(t) ==
  /\ micro # <<>> /\ Head(micro) = t
  /\ tasks[t].pc = "store_searchWords"
  /\ LET ret == tasks[t].ret
     IN  /\ searchResults' = IF ret.ok THEN toWordEntries(ret.words)
                             ELSE searchCatch(ret).results
         /\ currentSearch' = IF ret.ok THEN <<tasks[t].word>> ELSE currentSearch
         /\ searchHistory' = IF ret.ok
                               THEN addToSearchHistory(searchHistory, tasks[t].word)
                             ELSE searchHistory
         /\ error' = IF ret.ok THEN error ELSE searchCatch(ret).error
         /\ isSearching' = FALSE
         /\ tasks' = [tasks EXCEPT ![t] = Done(@, IF ret.ok THEN NoValue ELSE ret)]
  /\ micro' = Tail(micro)
  /\ UNCHANGED <<corpus, worker, svcVars, isLoading, isInitialized, allWords,
                 wordAnalysisCache, workerVars, aggVars, pureVars, hasSearched>>

\* store.clearResults()
CallClearResults ==
  /\ searchResults' = <<>>
  /\ currentSearch' = <<>>
  /\ hasSearched' = FALSE
  /\ error' = NULL
  /\ UNCHANGED <<corpus, worker, svcVars, isLoading, isInitialized, allWords,
                 wordAnalysisCache, tasks, micro, workerVars, aggVars, pureVars,
                 isSearching, searchHistory>>

(***************************************************************************)
(* The engine: store, service and worker.                                  *)
(***************************************************************************)
NotRun == [ran |-> FALSE, throws |-> FALSE, words |-> <<>>, tokens |-> 0]
Ran(job) == [ran |-> TRUE, throws |-> job.throws, words |-> job.words,
             tokens |-> job.tokens]

Init ==
  /\ corpus \in MainCorpora
  /\ worker \in BOOLEAN
  /\ wordCache = EmptyMap
  /\ analysisCache = EmptyMap
  /\ taCache = EmptyMap
  /\ onmessage = 0
  /\ timers = {}
  /\ aaCalls = <<>>
  /\ lastWriter = 0
  /\ clearedSince = FALSE
  /\ isLoading = FALSE
  /\ isInitialized = FALSE
  /\ error = NULL
  /\ allWords = <<>>
  /\ wordAnalysisCache = EmptyMap
  /\ tasks = <<>>
  /\ micro = <<>>
  /\ wInbox = <<>>
  /\ wTimers = <<>>
  /\ wJobs = EmptyMap
  /\ wordFrequency = <<>>
  /\ mInbox = <<>>
  /\ aggCorpus = <<>>
  /\ outMain = NotRun
  /\ outWorker = NotRun
  /\ PureIdle
  /\ SearchIdle

Next ==
  \/ CallInitialize
  \/ CallClearCache
  \/ \E word \in AnalyzeWords : CallGetWordAnalysis(word)
  \/ \E t \in DOMAIN tasks : Resume_analyzeAllArticles(t)
  \/ \E t \in DOMAIN tasks : Resume_initialize(t)
  \/ \E t \in DOMAIN tasks : Resume_performWordAnalysis(t)
  \/ \E t \in DOMAIN tasks : Resume_service_getWordAnalysis(t)
  \/ \E t \in DOMAIN tasks : Resume_store_getWordAnalysis(t)
  \/ \E k \in DOMAIN aaCalls : TimerFire(k)
  \/ DeliverMessage
  \/ WorkerReceive
  \/ WorkerResume

Spec == Init /\ [][Next]_vars

(***************************************************************************)
(* The two aggregation paths run on the same corpus.                       *)
(***************************************************************************)
\* "fox"
AggText_1 == <<"f","o","x">>
\* "Dog dog."
AggText_2 == <<"D","o","g"," ","d","o","g",".">>
\* "the more x"
AggText_3 == <<"t","h","e"," ","m","o","r","e"," ","x">>
\* "fox's dogs"
AggText_4 == <<"f","o","x","'","s"," ","d","o","g","s">>
\* "A dog, a fox"
AggText_5 == <<"A"," ","d","o","g",","," ","a"," ","f","o","x">>
AggTexts == {AggText_1, AggText_2, AggText_3, AggText_4, AggText_5}
\* the number of documents of a corpus
MaxDocs == 2
AggCorpora ==
  UNION { { [i \in 1..n |-> Doc(i, f[i])] : f \in [1..n -> AggTexts] } : n \in 1..MaxDocs }

InitAgg ==
  /\ aggCorpus \in AggCorpora
  /\ outMain = NotRun
  /\ outWorker = NotRun
  /\ PureIdle
  /\ SearchIdle
  /\ corpus = aggCorpus
  /\ worker = FALSE
  /\ wordCache = EmptyMap
  /\ analysisCache = EmptyMap
  /\ taCache = EmptyMap
  /\ onmessage = 0
  /\ timers = {}
  /\ aaCalls = <<>>
  /\ lastWriter = 0
  /\ clearedSince = FALSE
  /\ isLoading = FALSE
  /\ isInitialized = FALSE
  /\ error = NULL
  /\ allWords = <<>>
  /\ wordAnalysisCache = EmptyMap
  /\ tasks = <<>>
  /\ micro = <<>>
  /\ wInbox = <<>>
  /\ wTimers = <<>>
  /\ wJobs = EmptyMap
  /\ wordFrequency = <<>>
  /\ mInbox = <<>>

\* this.processArticles(mockArticles) on the corpus
RunProcessArticles ==
  /\ ~outMain.ran
  /\ outMain' = Ran(mainJob(aggCorpus))
  /\ UNCHANGED <<corpus, worker, svcVars, storeVars, tasks, micro, workerVars,
                 aggCorpus, outWorker, pureVars, searchVars>>
\* the worker's job on the corpus
RunWorkerJob ==
  /\ ~outWorker.ran
  /\ outWorker' = Ran(workerJob(aggCorpus))
  /\ UNCHANGED <<corpus, worker, svcVars, storeVars, tasks, micro, workerVars,
                 aggCorpus, outMain, pureVars, searchVars>>

NextAgg == RunProcessArticles \/ RunWorkerJob
SpecAgg == InitAgg /\ [][NextAgg]_vars

(***************************************************************************)
(* Single functions called on their own.                                   *)
(***************************************************************************)
\* the engine as it is constructed, with no corpus
EngineIdle ==
  /\ corpus = <<>>
  /\ worker = FALSE
  /\ wordCache = EmptyMap
  /\ analysisCache = EmptyMap
  /\ taCache = EmptyMap
  /\ onmessage = 0
  /\ timers = {}
  /\ aaCalls = <<>>
  /\ lastWriter = 0
  /\ clearedSince = FALSE
  /\ isLoading = FALSE
  /\ isInitialized = FALSE
  /\ error = NULL
  /\ allWords = <<>>
  /\ wordAnalysisCache = EmptyMap
  /\ tasks = <<>>
  /\ micro = <<>>
  /\ wInbox = <<>>
  /\ wTimers = <<>>
  /\ wJobs = EmptyMap
  /\ wordFrequency = <<>>
  /\ mInbox = <<>>
  /\ aggCorpus = <<>>
  /\ outMain = NotRun
  /\ outWorker = NotRun
engineVars ==
  <<corpus, worker, svcVars, storeVars, tasks, micro, workerVars, aggVars>>

\* the words the stemmer is called on
StemWords ==
  {
    <<"c","a","r","e","s","s","e","s">>, <<"p","o","n","i","e","s">>, <<"t","i","e","s">>,
    <<"a","g","r","e","e","d">>, <<"c","a","r","e","s","s">>, <<"c","a","t","s">>,
    <<"f","e","e","d">>, <<"p","l","a","s","t","e","r","e","d">>, <<"b","l","e","d">>,
    <<"m","o","t","o","r","i","n","g">>, <<"s","i","n","g">>, <<"c","o","n","f","l","a","t","e","d">>,
    <<"t","r","o","u","b","l","e","d">>, <<"s","i","z","e","d">>, <<"h","o","p","p","i","n","g">>,
    <<"t","a","n","n","e","d">>, <<"f","a","l","l","i","n","g">>, <<"h","i","s","s","i","n","g">>,
    <<"f","i","z","z","e","d">>, <<"f","a","i","l","i","n","g">>, <<"f","i","l","i","n","g">>,
    <<"h","a","p","p","y">>, <<"s","k","y">>, <<"r","e","l","a","t","i","o","n","a","l">>,
    <<"c","o","n","d","i","t","i","o","n","a","l">>, <<"r","a","t","i","o","n","a","l">>, <<"v","a","l","e","n","c","i">>,
    <<"h","e","s","i","t","a","n","c","i">>, <<"d","i","g","i","t","i","z","e","r">>, <<"c","o","n","f","o","r","m","a","b","l","i">>,
    <<"r","a","d","i","c","a","l","l","i">>, <<"d","i","f","f","e","r","e","n","t","l","i">>, <<"v","i","l","e","l","i">>,
    <<"a","n","a","l","o","g","o","u","s","l","i">>, <<"v","i","e","t","n","a","m","i","z","a","t","i","o","n">>, <<"p","r","e","d","i","c","a","t","i","o","n">>,
    <<"o","p","e","r","a","t","o","r">>, <<"f","e","u","d","a","l","i","s","m">>, <<"d","e","c","i","s","i","v","e","n","e","s","s">>,
    <<"h","o","p","e","f","u","l","n","e","s","s">>, <<"c","a","l","l","o","u","s","n","e","s","s">>, <<"f","o","r","m","a","l","i","t","i">>,
    <<"s","e","n","s","i","t","i","v","i","t","i">>, <<"s","e","n","s","i","b","i","l","i","t","i">>, <<"t","r","i","p","l","i","c","a","t","e">>,
    <<"f","o","r","m","a","t","i","v","e">>, <<"f","o","r","m","a","l","i","z","e">>, <<"e","l","e","c","t","r","i","c","i","t","i">>,
    <<"e","l","e","c","t","r","i","c","a","l">>, <<"h","o","p","e","f","u","l">>, <<"g","o","o","d","n","e","s","s">>,
    <<"r","e","v","i","v","a","l">>, <<"a","l","l","o","w","a","n","c","e">>, <<"i","n","f","e","r","e","n","c","e">>,
    <<"a","i","r","l","i","n","e","r">>, <<"g","y","r","o","s","c","o","p","i","c">>, <<"a","d","j","u","s","t","a","b","l","e">>,
    <<"d","e","f","e","n","s","i","b","l","e">>, <<"i","r","r","i","t","a","n","t">>, <<"r","e","p","l","a","c","e","m","e","n","t">>,
    <<"a","d","j","u","s","t","m","e","n","t">>, <<"d","e","p","e","n","d","e","n","t">>, <<"a","d","o","p","t","i","o","n">>,
    <<"h","o","m","o","l","o","g","o","u">>, <<"c","o","m","m","u","n","i","s","m">>, <<"a","c","t","i","v","a","t","e">>,
    <<"a","n","g","u","l","a","r","i","t","i">>, <<"h","o","m","o","l","o","g","o","u","s">>, <<"e","f","f","e","c","t","i","v","e">>,
    <<"b","o","w","d","l","e","r","i","z","e">>, <<"p","r","o","b","a","t","e">>, <<"r","a","t","e">>,
    <<"c","e","a","s","e">>, <<"c","o","n","t","r","o","l","l">>, <<"r","o","l","l">>,
    <<"d","o","g">>, <<"D","o","g">>, <<"D","O","G","S">>,
    <<"d","o","g","s">>, <<"r","u","n","n","i","n","g">>, <<"r","u","n","s">>,
    <<"r","a","n">>, <<"j","u","m","p","s">>, <<"j","u","m","p","e","d">>,
    <<"j","u","m","p","i","n","g">>, <<"q","u","i","c","k">>, <<"b","r","o","w","n">>,
    <<"f","o","x">>, <<"l","a","z","y">>, <<"b","a","r","k","s">>,
    <<"t","h","e">>, <<"a">>, <<"a","n">>,
    <<"i","s">>, <<"b","e">>, <<"a","t">>,
    <<"a","g","r","e","e">>, <<"a","g","r","e","e","s">>, <<"a","g","r","e","e","m","e","n","t">>,
    <<"d","i","s","a","g","r","e","e","d">>, <<"o","w","e","d">>, <<"o","w","n","e","d">>,
    <<"m","e","e","t","i","n","g">>, <<"m","e","e","t","i","n","g","s">>, <<"g","e","n","e","r","o","u","s","l","y">>,
    <<"g","e","n","e","r","a","l","i","z","a","t","i","o","n">>, <<"n","a","t","i","o","n","a","l">>, <<"n","a","t","i","o","n","a","l","i","t","y">>,
    <<"o","s","c","i","l","l","a","t","o","r","s">>, <<"s","e","n","s","a","t","i","o","n","a","l">>, <<"t","r","a","d","i","t","i","o","n","a","l">>,
    <<"c","e","m","e","n","t">>, <<"m","a","t","t","i","n","g">>, <<"m","a","t","i","n","g">>,
    <<"s","i","t","t","i","n","g">>, <<"s","i","t">>, <<"s","i","t","i","n","g">>,
    <<"e","a","t","i","n","g">>, <<"e","a","t","e","n">>, <<"a","b","i","l","i","t","i","e","s">>,
    <<"a","b","i","l","i","t","y">>, <<"a","b","l","e">>, <<"p","o","s","s","i","b","l","y">>,
    <<"p","o","s","s","i","b","l","e">>, <<"u","n","i","v","e","r","s","i","t","y">>, <<"u","n","i","v","e","r","s","a","l">>,
    <<"u","n","i","v","e","r","s","e">>, <<"n","e","w","s">>, <<"n","e","w","e","r">>,
    <<"l","y","i","n","g">>, <<"d","y","i","n","g">> }

InitStem == EngineIdle /\ PureIdle /\ SearchIdle
\* stemWord(word)
CallStemWord(word) ==
  /\ input' = [fn |-> "stemWord", word |-> word]
  /\ output' = [fn |-> "stemWord", stem |-> stemWord(word)]
  /\ UNCHANGED <<engineVars, searchVars>>
NextStem == \E word \in StemWords : CallStemWord(word)
SpecStem == InitStem /\ [][NextStem]_vars

(***************************************************************************)
(* findWordMatches in its two modes on the same term and word list.        *)
(***************************************************************************)
\* "dog", "Dog", "dogs", "FOX", "fo", "do*", "*", "more"
MatchTerms ==
  { <<"d","o","g">>, <<"D","o","g">>, <<"d","o","g","s">>, <<"F","O","X">>,
    <<"f","o">>, <<"d","o","*">>, <<"*">>, <<"m","o","r","e">> }
\* the word lists analyzeAllArticles returns for the corpora
MatchWordLists == { mainJob(articles).words : articles \in AggCorpora }
NoMatches == [fn |-> "findWordMatches", exact |-> NotRun, intelligent |-> NotRun]
InitMatch ==
  /\ EngineIdle /\ SearchIdle
  /\ input \in { [fn |-> "findWordMatches", term |-> term, words |-> words] :
                   term \in MatchTerms, words \in MatchWordLists }
  /\ output = NoMatches
\* findWordMatches(term, words, 'exact')
RunExact ==
  /\ ~output.exact.ran
  /\ output' = [output EXCEPT
       !.exact = [ran |-> TRUE,
                  words |-> findWordMatches(input.term, input.words, "exact")]]
  /\ UNCHANGED <<engineVars, searchVars, input>>
\* findWordMatches(term, words, 'intelligent')
RunIntelligent ==
  /\ ~output.intelligent.ran
  /\ output' = [output EXCEPT
       !.intelligent = [ran |-> TRUE,
                        words |-> findWordMatches(input.term, input.words,
                                                  "intelligent")]]
  /\ UNCHANGED <<engineVars, searchVars, input>>
NextMatch == RunExact \/ RunIntelligent
SpecMatch == InitMatch /\ [][NextMatch]_vars

(***************************************************************************)
(* The worker on its own, on corpora of more than one batch.               *)
(***************************************************************************)
\* the number of documents of a corpus, and of requests posted to the worker
MaxBatchDocs == 25
MaxRequests == 2
BatchDoc(i, content) == [id |-> ToString(i), content |-> content]
\* "the"
BatchText == <<"t","h","e">>
\* n documents, the first "fox" and the others "the", the last of them
\* possibly without a content
BatchContent(i) == IF i = 1 THEN AggText_1 ELSE BatchText
BatchCorpora ==
  { [i \in 1..n |-> BatchDoc(i, BatchContent(i))] : n \in 0..MaxBatchDocs }
  \cup { [i \in 1..n |-> BatchDoc(i, IF i = n THEN undefined ELSE BatchContent(i))] :
           n \in 1..MaxBatchDocs }
InitBatch ==
  /\ corpus \in BatchCorpora
  /\ worker = TRUE
  /\ wordCache = EmptyMap
  /\ analysisCache = EmptyMap
  /\ taCache = EmptyMap
  /\ onmessage = 0
  /\ timers = {}
  /\ aaCalls = <<>>
  /\ lastWriter = 0
  /\ clearedSince = FALSE
  /\ isLoading = FALSE
  /\ isInitialized = FALSE
  /\ error = NULL
  /\ allWords = <<>>
  /\ wordAnalysisCache = EmptyMap
  /\ tasks = <<>>
  /\ micro = <<>>
  /\ wInbox = <<>>
  /\ wTimers = <<>>
  /\ wJobs = EmptyMap
  /\ wordFrequency = <<>>
  /\ mInbox = <<>>
  /\ aggCorpus = <<>>
  /\ outMain = NotRun
  /\ outWorker = NotRun
  /\ PureIdle
  /\ SearchIdle
\* this.worker.postMessage({ type: 'analyze_articles', articles })
PostRequest ==
  /\ Cardinality(DOMAIN wJobs) + Len(wInbox) < MaxRequests
  /\ wInbox' = Append(wInbox, Cardinality(DOMAIN wJobs) + Len(wInbox) + 1)
  /\ UNCHANGED <<corpus, worker, svcVars, storeVars, tasks, micro, wTimers, wJobs,
                 wordFrequency, mInbox, aggVars, pureVars, searchVars>>
NextBatch == PostRequest \/ WorkerReceive \/ WorkerResume
SpecBatch == InitBatch /\ [][NextBatch]_vars

(***************************************************************************)
(* The two tokenizers called on a text: TextAnalyzer.extractWords of one   *)
(* analyzer, with its cache, and WorkerTextProcessor.extractWords.         *)
(***************************************************************************)
\* It's 4x: O'Neil's "Dogs"
TokenText_1 ==
  <<"I","t","'","s"," ","4","x",":"," ","O","'","N","e","i","l","'","s"," ","\"","D","o","g","s","\"">>
\* don't re-do the' B2B x
TokenText_2 ==
  <<"d","o","n","'","t"," ","r","e","-","d","o"," ","t","h","e","'"," ","B","2","B"," ","x">>
\* She said 'More'!\tWe'll
TokenText_3 ==
  <<"S","h","e"," ","s","a","i","d"," ","'","M","o","r","e","'","!","\t","W","e","'","l","l">>
\* 100 characters "aaaa aaaa ... ", then "dog" or "Fox the"
LongPrefix == [i \in 1..CachePrefixLen |-> IF i % 5 = 0 THEN " " ELSE "a"]
LongText_1 == LongPrefix \o T_dog
LongText_2 == LongPrefix \o <<"F","o","x"," ","t","h","e">>
TokenTexts ==
  { Text_A, AggText_3, AggText_4, TokenText_1, TokenText_2, TokenText_3,
    LongText_1, LongText_2 }
MinLengths == {1, 3}
\* the number of results an analyzer caches in a run
MaxCached == 2
InitTokens == EngineIdle /\ PureIdle /\ SearchIdle
\* textAnalyzer.extractWords(text, { includeStopWords, minLength })
CallExtractWords(text, includeStopWords, minLength) ==
  /\ \/ wordsCacheKey(text, includeStopWords, minLength) \in DOMAIN taCache
     \/ Cardinality(DOMAIN taCache) < MaxCached
  /\ input' = [fn |-> "extractWords", text |-> text,
               includeStopWords |-> includeStopWords, minLength |-> minLength]
  /\ output' = [fn |-> "extractWords",
                tokens |-> TA_extractWords(taCache, text, includeStopWords, minLength)]
  /\ taCache' = TA_cacheAfter(taCache, text, includeStopWords, minLength)
  /\ UNCHANGED <<corpus, worker, wordCache, analysisCache, onmessage, timers,
                 aaCalls, lastWriter, clearedSince, storeVars, tasks, micro,
                 workerVars, aggVars, searchVars>>
\* WorkerTextProcessor.extractWords(text)
CallWorkerExtractWords(text) ==
  /\ input' = [fn |-> "Worker_extractWords", text |-> text,
               includeStopWords |-> FALSE, minLength |-> 2]
  /\ output' = [fn |-> "Worker_extractWords", tokens |-> Worker_extractWords(text)]
  /\ UNCHANGED <<engineVars, searchVars>>
NextTokens ==
  \/ \E text \in TokenTexts, includeStopWords \in BOOLEAN, minLength \in MinLengths :
        CallExtractWords(text, includeStopWords, minLength)
  \/ \E text \in TokenTexts : CallWorkerExtractWords(text)
SpecTokens == InitTokens /\ [][NextTokens]_vars

(***************************************************************************)
(* searchWords on the word list of either aggregation path.                *)
(***************************************************************************)
\* The quick brown fox jumps over the lazy dog. The dog barks.
Text_ScenarioA ==
  <<"T","h","e"," ","q","u","i","c","k"," ","b","r","o","w","n"," ","f","o","x"," ","j","u","m","p","s"," ","o","v","e","r"," ","t","h","e"," ","l","a","z","y"," ","d","o","g","."," ","T","h","e"," ","d","o","g"," ","b","a","r","k","s",".">>
Corpus_ScenarioA == <<Doc(1, Text_ScenarioA)>>
QueryCorpora == {Corpus_ScenarioA, Corpus_two, <<Doc(1, Text_B), Doc(4, Text_ScenarioA)>>}
\* "dog", "Dog", "jump*", "fox dogs", "\"lazy dog\"", "*og", "the"
Queries ==
  { T_dog, T_Dog, <<"j","u","m","p","*">>, <<"f","o","x"," ","d","o","g","s">>,
    <<"\"","l","a","z","y"," ","d","o","g","\"">>, <<"*","o","g">>, <<"t","h","e">> }
\* the filters of the page as it is created, and filters that let all pass
PageFilters == [minLength |-> 3, excludeCommon |-> TRUE, articles |-> <<>>]
NoFilters == [minLength |-> 1, excludeCommon |-> FALSE, articles |-> <<>>]
BookmarkedFilters == [minLength |-> 1, excludeCommon |-> FALSE,
                      articles |-> <<"popular", "bookmarked">>]
SearchInputs ==
  { [fn |-> "searchWords", query |-> query, mode |-> mode, filters |-> filters] :
      query \in Queries, mode \in {"exact", "intelligent"},
      filters \in {PageFilters, NoFilters, BookmarkedFilters} }
InitQuery ==
  /\ corpus \in QueryCorpora
  /\ worker \in BOOLEAN
  /\ wordCache = EmptyMap
  /\ analysisCache = EmptyMap
  /\ taCache = EmptyMap
  /\ onmessage = 0
  /\ timers = {}
  /\ aaCalls = <<>>
  /\ lastWriter = 0
  /\ clearedSince = FALSE
  /\ isLoading = FALSE
  /\ isInitialized = FALSE
  /\ error = NULL
  /\ allWords = <<>>
  /\ wordAnalysisCache = EmptyMap
  /\ tasks = <<>>
  /\ micro = <<>>
  /\ wInbox = <<>>
  /\ wTimers = <<>>
  /\ wJobs = EmptyMap
  /\ wordFrequency = <<>>
  /\ mInbox = <<>>
  /\ aggCorpus = corpus
  /\ outMain = NotRun
  /\ outWorker = NotRun
  /\ input \in SearchInputs
  /\ output = NoCall
  /\ SearchIdle
\* what searchWords(options) resolves or rejects with when analyzeAllArticles
\* returned the word list of `job`
searchOutcome(job, options, articles, r) ==
  [fn |-> "searchWords",
   ok |-> ~job.throws /\ ~r.throws,
   results |-> r.results,
   err |-> IF job.throws \/ r.throws THEN ERR_SEARCH ELSE ""]
\* service.searchWords(options) on a fresh engine, once analyzeAllArticles has
\* the word list of the worker's or of the in-process job
RunSearchWords ==
  /\ output = NoCall
  /\ IF worker THEN outWorker.ran ELSE outMain.ran
  /\ output' = IF worker
                 THEN searchOutcome(outWorker, input, corpus,
                                    searchAll(outWorker.words, input, corpus))
                 ELSE searchOutcome(outMain, input, corpus,
                                    searchAll(outMain.words, input, corpus))
  /\ UNCHANGED <<engineVars, searchVars, input>>
NextQuery == RunProcessArticles \/ RunWorkerJob \/ RunSearchWords
SpecQuery == InitQuery /\ [][NextQuery]_vars

(***************************************************************************)
(* The search session on the engine.                                       *)
(***************************************************************************)
\* "dog" in exact mode, a query of spaces, and "*og": a pattern that is
\* matched but of which extractContexts cannot build its expression
SessionOptions ==
  { [query |-> T_dog, mode |-> "exact", filters |-> NoFilters],
    [query |-> <<" ", " ">>, mode |-> "exact", filters |-> NoFilters],
    [query |-> <<"*","o","g">>, mode |-> "exact", filters |-> NoFilters] }
NextSearch ==
  \/ \E options \in SessionOptions : CallSearchWords(options)
  \/ CallClearResults
  \/ \E t \in DOMAIN tasks : Resume_analyzeAllArticles(t)
  \/ \E t \in DOMAIN tasks : Resume_initialize_inSearch(t)
  \/ \E t \in DOMAIN tasks : Resume_searchWords_afterInitialize(t)
  \/ \E t \in DOMAIN tasks : Resume_service_searchWords(t)
  \/ \E t \in DOMAIN tasks : Resume_buildSearchResult(t)
  \/ \E t \in DOMAIN tasks : Resume_store_searchWords(t)
  \/ \E k \in DOMAIN aaCalls : TimerFire(k)
  \/ DeliverMessage
  \/ WorkerReceive
  \/ WorkerResume
SpecSearch == Init /\ [][NextSearch]_vars

(***************************************************************************)
(* parseSearchQuery called on its own.                                     *)
(***************************************************************************)
ParseMaxLen == 4
\* every query of up to ParseMaxLen characters out of a letter, a space, a
\* double quote and the wildcard marker
ShortQueries ==
  UNION { [1..n -> {"a", " ", "\"", "*"}] : n \in 0..ParseMaxLen }
\* 'running dogs', '  Running   dogs ', 'jump*', '"lazy dog"',
\* '"lazy dog" fox*', '"a" "b c"', 'the<TAB>quick fox', 'agreed',
\* '"fox* dog" cats'
LongQueries ==
  {
    <<"r","u","n","n","i","n","g"," ","d","o","g","s">>,
    <<" "," ","R","u","n","n","i","n","g"," "," "," ","d","o","g","s"," ">>,
    <<"j","u","m","p","*">>,
    <<"\"","l","a","z","y"," ","d","o","g","\"">>,
    <<"\"","l","a","z","y"," ","d","o","g","\""," ","f","o","x","*">>,
    <<"\"","a","\""," ","\"","b"," ","c","\"">>,
    <<"t","h","e","\t","q","u","i","c","k"," ","f","o","x">>,
    <<"a","g","r","e","e","d">>,
    <<"\"","f","o","x","*"," ","d","o","g","\""," ","c","a","t","s">> }
InitParse ==
  /\ EngineIdle /\ SearchIdle
  /\ input \in { [fn |-> "parseSearchQuery", query |-> query, mode |-> mode] :
                   query \in ShortQueries \cup LongQueries,
                   mode \in {"intelligent", "exact"} }
  /\ output = NoCall
\* parseSearchQuery(query, mode)
CallParseSearchQuery ==
  /\ input.fn = "parseSearchQuery"
  /\ output = NoCall
  /\ output' = [fn |-> "parseSearchQuery",
                terms |-> parseSearchQuery(input.query, input.mode)]
  /\ UNCHANGED <<engineVars, searchVars, input>>
NextParse == CallParseSearchQuery
SpecParse == InitParse /\ [][NextParse]_vars

(***************************************************************************)
(* optimizeWordList called on the word lists analyzeArticles returns.      *)
(***************************************************************************)
\* FrequencyAnalyzer.analyzeArticles on a fresh analyzer: the sorted entries
\* before the handler passes them to optimizeWordList
analyzeArticles(articles) ==
  sortByFrequency(buildFrequencyMap(<<>>, runBatches(articles, 0, <<>>).results))
\* the largest of the small caps tried next to the default one
MaxCap == 2
InitOptimize ==
  /\ EngineIdle /\ SearchIdle
  /\ input \in { [fn |-> "optimizeWordList", words |-> analyzeArticles(articles),
                  maxWords |-> maxWords] :
                   articles \in AggCorpora,
                   maxWords \in 0..MaxCap \cup {DefaultMaxWords} }
  /\ output = NoCall
\* optimizeWordList(words, maxWords)
CallOptimizeWordList ==
  /\ input.fn = "optimizeWordList"
  /\ output = NoCall
  /\ output' = [fn |-> "optimizeWordList",
                words |-> optimizeWordList(input.words, input.maxWords)]
  /\ UNCHANGED <<engineVars, searchVars, input>>
NextOptimize == CallOptimizeWordList
SpecOptimize == InitOptimize /\ [][NextOptimize]_vars

(***************************************************************************)
(* Deep analysis of single words: store.getWordAnalysis on the engine.     *)
(***************************************************************************)
T_cat == <<"c","a","t">>
\* a word of the corpus and a word that is in none of its documents
WordsAsked == {T_dog, T_cat}
NextWord ==
  \/ \E word \in WordsAsked : CallGetWordAnalysis(word)
  \/ \E t \in DOMAIN tasks : Resume_analyzeAllArticles(t)
  \/ \E t \in DOMAIN tasks : Resume_performWordAnalysis(t)
  \/ \E t \in DOMAIN tasks : Resume_service_getWordAnalysis(t)
  \/ \E t \in DOMAIN tasks : Resume_store_getWordAnalysis(t)
  \/ \E k \in DOMAIN aaCalls : TimerFire(k)
  \/ DeliverMessage
  \/ WorkerReceive
  \/ WorkerResume
SpecWord == Init /\ [][NextWord]_vars

(***************************************************************************)
(* The entries of the two aggregation paths, also for documents that start *)
(* with the same characters.                                               *)
(***************************************************************************)
\* two documents whose first 100 characters are the same: 99 times "a" and a
\* space, then "dog" in the one and "Fox the" in the other
SamePrefix == [i \in 1..CachePrefixLen |-> IF i = CachePrefixLen THEN " " ELSE "a"]
Corpus_samePrefix ==
  <<Doc(1, SamePrefix \o T_dog), Doc(2, SamePrefix \o <<"F","o","x"," ","t","h","e">>)>>
InitEntries ==
  /\ aggCorpus \in AggCorpora \cup {Corpus_samePrefix}
  /\ outMain = NotRun
  /\ outWorker = NotRun
  /\ PureIdle
  /\ SearchIdle
  /\ corpus = aggCorpus
  /\ worker = FALSE
  /\ wordCache = EmptyMap
  /\ analysisCache = EmptyMap
  /\ taCache = EmptyMap
  /\ onmessage = 0
  /\ timers = {}
  /\ aaCalls = <<>>
  /\ lastWriter = 0
  /\ clearedSince = FALSE
  /\ isLoading = FALSE
  /\ isInitialized = FALSE
  /\ error = NULL
  /\ allWords = <<>>
  /\ wordAnalysisCache = EmptyMap
  /\ tasks = <<>>
  /\ micro = <<>>
  /\ wInbox = <<>>
  /\ wTimers = <<>>
  /\ wJobs = EmptyMap
  /\ wordFrequency = <<>>
  /\ mInbox = <<>>
NextEntries == RunProcessArticles \/ RunWorkerJob
SpecEntries == InitEntries /\ [][NextEntries]_vars

(***************************************************************************)
(* performWordAnalysis on the word list of a corpus.                       *)
(***************************************************************************)
\* "dog", "dogs", "fox"
WordsAnalyzed == {T_dog, <<"d","o","g","s">>, <<"f","o","x">>}
InitAnalysis ==
  /\ corpus \in AggCorpora
  /\ worker \in BOOLEAN
  /\ wordCache = EmptyMap
  /\ analysisCache = EmptyMap
  /\ taCache = EmptyMap
  /\ onmessage = 0
  /\ timers = {}
  /\ aaCalls = <<>>
  /\ lastWriter = 0
  /\ clearedSince = FALSE
  /\ isLoading = FALSE
  /\ isInitialized = FALSE
  /\ error = NULL
  /\ allWords = <<>>
  /\ wordAnalysisCache = EmptyMap
  /\ tasks = <<>>
  /\ micro = <<>>
  /\ wInbox = <<>>
  /\ wTimers = <<>>
  /\ wJobs = EmptyMap
  /\ wordFrequency = <<>>
  /\ mInbox = <<>>
  /\ aggCorpus = corpus
  /\ outMain = NotRun
  /\ outWorker = NotRun
  /\ input \in { [fn |-> "performWordAnalysis", word |-> word] : word \in WordsAnalyzed }
  /\ output = NoCall
  /\ SearchIdle
\* performWordAnalysis(word) once analyzeAllArticles has returned the word list
\* `job` of the worker's or of the in-process job
performWordAnalysis(job, word, r) ==
  IF job.throws THEN [fn |-> "performWordAnalysis", ok |-> FALSE,
                      analysis |-> NoAnalysis, err |-> ERR_ANALYZE]
  ELSE IF Len(findWordMatches(word, job.words, "intelligent")) = 0
    THEN [fn |-> "performWordAnalysis", ok |-> FALSE,
          analysis |-> NoAnalysis, err |-> ERR_NOT_FOUND]
  ELSE [fn |-> "performWordAnalysis", ok |-> TRUE,
        analysis |-> wordAnalysisOf(word, job.words, corpus, r), err |-> ""]
RunPerformWordAnalysis ==
  /\ output = NoCall
  /\ IF worker THEN outWorker.ran ELSE outMain.ran
  /\ \E r \in 0..(RandomChoices - 1) :
       output' = IF worker THEN performWordAnalysis(outWorker, input.word, r)
                 ELSE performWordAnalysis(outMain, input.word, r)
  /\ UNCHANGED <<engineVars, searchVars, input>>
NextAnalysis == RunProcessArticles \/ RunWorkerJob \/ RunPerformWordAnalysis
SpecAnalysis == InitAnalysis /\ [][NextAnalysis]_vars

(***************************************************************************)
(* Properties.                                                             *)
(***************************************************************************)
Calls == DOMAIN aaCalls
Succeeded(k) == aaCalls[k].settled /\ aaCalls[k].outcome.ok
Failed(k) == aaCalls[k].settled /\ ~aaCalls[k].outcome.ok
\* job k was submitted to the worker
Submitted(k) == includes(wInbox, k) \/ k \in DOMAIN wJobs

\* C1: an analyzeAllArticles call that starts after an earlier call has
\* resolved (the word list was cached by call pred) is served from the cache:
\* it returns the very list the caching call returned, submits no job to the
\* worker and does not run the in-process aggregation.
C1_SecondCallServedFromCache ==
  \A k \in Calls :
    aaCalls[k].pred # 0 =>
      /\ aaCalls[k].how = "cache"
      /\ ~Submitted(k)
      /\ Succeeded(k)
      /\ Succeeded(aaCalls[k].pred)
      /\ aaCalls[k].outcome.words = aaCalls[aaCalls[k].pred].outcome.words
C1_Witness ==
  \E k \in Calls :
    /\ aaCalls[k].pred # 0
    /\ aaCalls[aaCalls[k].pred].how = "worker"
    /\ Succeeded(k)
    /\ aaCalls[k].outcome.words # <<>>
    /\ ~clearedSince /\ \A t \in DOMAIN tasks : IsAsync(tasks[t])

\* C2: the analyzeAllArticles call that follows a clearCache re-executes the
\* aggregation (worker job or in-process run) instead of returning the list
\* cached before the clear.
C2_NextAnalyzeAllRecomputes ==
  \A k \in Calls : aaCalls[k].afterClear => aaCalls[k].how # "cache"

IsTerminal(m) == m.type \in {"analysis_complete", "error"}
C4_FallbackEqualsWorker ==
  (outMain.ran /\ outWorker.ran) =>
    /\ outMain.throws = outWorker.throws
    /\ outMain.words = outWorker.words

InFlight == { k \in Calls : aaCalls[k].how = "worker" /\ ~aaCalls[k].settled }
\* C6: at most one aggregation run is in flight at a time.
C6_AtMostOneInFlight == Cardinality(InFlight) <= 1

\* the event loops have nothing left to run: no microtask, no message, no
\* suspended job and no armed timer
Quiescent ==
  /\ micro = <<>> /\ mInbox = <<>> /\ wInbox = <<>> /\ wTimers = <<>>
  /\ timers = {}
\* C7: a pending analyzeAllArticles call never waits forever: while its
\* promise is pending, an answer of the worker or its 30 s timeout is still to
\* come, so no call is pending once the event loops have run dry.
C7_PendingCallSettles ==
  Quiescent => \A k \in Calls : aaCalls[k].promise # "pending"

\* C8 (as stated): the caller of analyzeAllArticles can tell a timeout from a
\* processing error of the worker.
C8_TimeoutSurfacesDistinct ==
  \A i, k \in Calls :
    (Failed(i) /\ Failed(k) /\ aaCalls[i].cause = "timeout"
               /\ aaCalls[k].cause = "processing") =>
      aaCalls[i].outcome.err # aaCalls[k].outcome.err
\* C8 (amended): the timeout is distinct only where processWithWorker rejects
\* ('Worker timeout' against the worker's own message); analyzeAllArticles
\* catches either and every failed call shows its caller the same error.
C8_FailuresSurfaceAlike ==
  /\ \A t \in DOMAIN tasks :
       (tasks[t].pc = "analyzeAllArticles" /\ ~tasks[t].ret.ok) =>
         (tasks[t].ret.err = ERR_TIMEOUT <=> aaCalls[tasks[t].aa].cause = "timeout")
  /\ \A k \in Calls : Failed(k) => aaCalls[k].outcome.err = ERR_ANALYZE
C8_Witness ==
  \E i, k \in Calls :
    /\ Failed(i) /\ aaCalls[i].cause = "timeout"
    /\ Failed(k) /\ aaCalls[k].cause = "processing" /\ aaCalls[k].how = "worker"

\* a step of a call whose aggregation failed: the failure is caught or passed
\* on by one of the functions awaiting it, or processArticles threw
FailureStep ==
  \/ \E t \in DOMAIN tasks :
       /\ tasks[t].pc # "done" /\ ~tasks[t].ret.ok
       /\ tasks[t].ret.err \in {ERR_TIMEOUT, ERR_WORKER, ERR_ANALYZE}
       /\ tasks'[t] # tasks[t]
  \/ /\ Len(aaCalls') > Len(aaCalls)
     /\ aaCalls'[Len(aaCalls')].settled /\ ~aaCalls'[Len(aaCalls')].outcome.ok
\* C9: a failed aggregation leaves the service's word cache and analysis cache
\* and the store's allWords and isInitialized as they were.
C9_FailureLeavesCachedState ==
  [][FailureStep => UNCHANGED <<wordCache, analysisCache, allWords, isInitialized>>]_vars
C9_Witness ==
  /\ isInitialized /\ allWords # <<>> /\ cacheHit(wordCache)
  /\ \E t \in DOMAIN tasks :
       /\ tasks[t].kind = "initialize" /\ tasks[t].pc = "done"
       /\ ~tasks[t].result.ok
       /\ tasks[t].result.err = ERR_ANALYZE

\* C10: an entry of the analysis cache, once stored, is never replaced.
C10_AnalysisCacheWriteOnce ==
  [][\A key \in DOMAIN analysisCache :
       /\ key \in DOMAIN analysisCache'
       /\ analysisCache'[key] = analysisCache[key]]_vars

(***************************************************************************)
(* C19: the stemmer reproduces the reference vectors: the stem of          *)
(* "caresses" is "caress", of "ponies" "poni", of "ties" "ti" and of       *)
(* "agreed" "agre".                                                        *)
(***************************************************************************)
StemOf(word, stem) ==
  (input.fn = "stemWord" /\ input.word = word) => output.stem = stem
C19_ReferenceVectors ==
  /\ StemOf(<<"c","a","r","e","s","s","e","s">>, <<"c","a","r","e","s","s">>)
  /\ StemOf(<<"p","o","n","i","e","s">>, <<"p","o","n","i">>)
  /\ StemOf(<<"t","i","e","s">>, <<"t","i">>)
  /\ StemOf(<<"a","g","r","e","e","d">>, <<"a","g","r","e">>)
C19_Witness ==
  /\ input.fn = "stemWord"
  /\ input.word = <<"a","g","r","e","e","d">>
  /\ output.stem = <<"a","g","r","e">>

(***************************************************************************)
(* C14: for every term and every aggregated word list, the entries matched *)
(* in exact mode are among the entries matched in intelligent mode.        *)
(***************************************************************************)
Elements(seq) == { seq[i] : i \in DOMAIN seq }
BothModesRan ==
  /\ input.fn = "findWordMatches"
  /\ output.exact.ran
  /\ output.intelligent.ran
C14_ExactWithinIntelligent ==
  BothModesRan => Elements(output.exact.words) \subseteq Elements(output.intelligent.words)
\* a term written in capitals matched the lowercase entry in both modes, and
\* intelligent mode matched more
C14_Witness ==
  /\ BothModesRan
  /\ input.term = <<"D","o","g">>
  /\ Len(output.exact.words) = 1
  /\ Len(output.intelligent.words) = 2

(***************************************************************************)
(* C20: the word list an aggregation returns is sorted by non-increasing   *)
(* frequency, and entries of equal frequency are in the order in which     *)
(* their words were first seen in the corpus.                              *)
(***************************************************************************)
\* the tokens of the corpus in document order, per tokenizer
RECURSIVE MainTokens(_)
MainTokens(articles) ==
  IF articles = <<>> THEN <<>>
  ELSE computeWords(Head(articles).content, FALSE, 1) \o MainTokens(Tail(articles))
RECURSIVE WorkerTokens(_)
WorkerTokens(articles) ==
  IF articles = <<>> THEN <<>>
  ELSE Worker_extractWords(Head(articles).content) \o WorkerTokens(Tail(articles))
FirstSeen(tokens, word) ==
  CHOOSE i \in DOMAIN tokens :
    tokens[i] = word /\ \A j \in 1..(i - 1) : tokens[j] # word
SortedAsSeen(words, tokens) ==
  \A i, j \in DOMAIN words :
    i < j =>
      \/ words[i].frequency > words[j].frequency
      \/ /\ words[i].frequency = words[j].frequency
         /\ FirstSeen(tokens, words[i].word) < FirstSeen(tokens, words[j].word)
C20_SortedStableOnFirstSeen ==
  /\ (outMain.ran /\ ~outMain.throws) =>
       SortedAsSeen(outMain.words, MainTokens(aggCorpus))
  /\ (outWorker.ran /\ ~outWorker.throws) =>
       SortedAsSeen(outWorker.words, WorkerTokens(aggCorpus))
\* "fox's dogs", "Dog dog.": the word seen last is the most frequent, the two
\* seen before it tie
C20_Witness ==
  /\ outMain.ran /\ outWorker.ran
  /\ Len(outMain.words) = 3
  /\ outMain.words[1].frequency > outMain.words[2].frequency
  /\ outMain.words[2].frequency = outMain.words[3].frequency
  /\ FirstSeen(MainTokens(aggCorpus), outMain.words[1].word)
       > FirstSeen(MainTokens(aggCorpus), outMain.words[3].word)

(***************************************************************************)
(* C13: the progress percentages posted during one aggregation run are     *)
(* non-decreasing and lie in 0..100; the documents are processed in corpus *)
(* order in batches of 10, with one progress event after each batch.       *)
(***************************************************************************)
IsProgress(message) == message.type = "progress_update"
\* the percentages job j has posted so far
ProgressPosted(j) ==
  LET updates == SelectSeq(wJobs[j].posted, IsProgress)
  IN  [p \in DOMAIN updates |-> updates[p].progress]
\* the number of batches of n documents
Batches(n) == (n + BATCH_SIZE - 1) \div BATCH_SIZE
JobCompleted(j) ==
  /\ wJobs[j].posted # <<>>
  /\ wJobs[j].posted[Len(wJobs[j].posted)].type = "analysis_complete"
WordShape(token) ==
  /\ Len(token) >= 1
  /\ token[1] \in Letters
  /\ token[Len(token)] \in Letters
  /\ \A i \in DOMAIN token : token[i] \in Letters \cup {"'"}
Lowercase(token) == \A i \in DOMAIN token : token[i] \notin UpperLetters
StopWordsOf(fn) ==
  IF fn = "extractWords" THEN STOP_WORDS ELSE STOP_WORDS_Worker
Tokenized == input.fn \in {"extractWords", "Worker_extractWords"}
C17_TokensValid ==
  Tokenized =>
    \A i \in DOMAIN output.tokens :
      /\ Lowercase(output.tokens[i])
      /\ Len(output.tokens[i]) >= input.minLength
      /\ WordShape(output.tokens[i])
      /\ ~input.includeStopWords => output.tokens[i] \notin StopWordsOf(input.fn)
\* "She said 'More'! We'll": the stop words written with a capital are left
\* out, the contraction is kept in lowercase
C17_Witness ==
  /\ input.fn = "extractWords"
  /\ input.text = TokenText_3
  /\ ~input.includeStopWords
  /\ input.minLength = 3
  /\ output.tokens = << <<"s","a","i","d">>, <<"w","e","'","l","l">> >>

(***************************************************************************)
(* C18: the tokens extractWords returns for a text and options depend only *)
(* on that text and those options, whatever was tokenized before on the    *)
(* same analyzer.                                                          *)
(***************************************************************************)
C18_ExtractWordsPure ==
  input.fn = "extractWords" =>
    output.tokens = computeWords(input.text, input.includeStopWords, input.minLength)

(***************************************************************************)
(* C15: the contexts of a result are, in document order, the sentences of  *)
(* each matched document that contain the term as a whole word, up to 3    *)
(* per document and 10 per result: an exact search for "dog" on the corpus *)
(* "The quick brown fox jumps over the lazy dog. The dog barks." returns   *)
(* one result with frequency 2 and two contexts.                           *)
(***************************************************************************)
\* the sentences of a content that contain the word as a whole word
SentencesWith(content, word) ==
  LET sentences == splitOnRuns(content, {".", "!", "?"})
      has(sentence) == regexTest(word, sentence, 0).found
      with == SelectSeq(sentences, has)
  IN  [i \in DOMAIN with |-> trim(with[i])]
ArticleOf(id) == CHOOSE i \in DOMAIN corpus : corpus[i].id = id
Searched == input.fn = "searchWords" /\ output.fn = "searchWords" /\ output.ok
C15_ContextsPerSentence ==
  /\ Searched =>
       \A i \in DOMAIN output.results :
         /\ \A a \in DOMAIN output.results[i].articles :
              output.results[i].articles[a].contexts =
                sliceTo(SentencesWith(
                          corpus[ArticleOf(output.results[i].articles[a].articleId)].content,
                          output.results[i].word), 3)
         /\ output.results[i].contexts =
              sliceTo(flatten([a \in DOMAIN output.results[i].articles |->
                                 output.results[i].articles[a].contexts]), 10)
  /\ (Searched /\ corpus = Corpus_ScenarioA /\ input.query = T_dog
        /\ input.mode = "exact" /\ input.filters = NoFilters) =>
       /\ Len(output.results) = 1
       /\ output.results[1].frequency = 2
       /\ Len(output.results[1].contexts) = 2

(***************************************************************************)
(* C16: a query with the wildcard marker * is matched in both modes as a   *)
(* case-insensitive pattern: when the token "jumps" occurs once in the     *)
(* corpus, the search for "jump*" returns a result whose matches include   *)
(* "jumps".                                                                *)
(***************************************************************************)
T_jumps == <<"j","u","m","p","s">>
SearchPending ==
  \E t \in DOMAIN tasks : IsSearch(tasks[t]) /\ tasks[t].pc # "done"
C11_SearchingWhilePending == isSearching <=> SearchPending

(***************************************************************************)
(* C12: a search that fails, the validation failure of an empty query      *)
(* included, ends with results = [], a message in error and                *)
(* isSearching = false.                                                    *)
(***************************************************************************)
\* the step in which the search of task t ends by throwing
SearchFails(t) ==
  /\ IsSearch(tasks[t])
  /\ tasks[t].pc # "done"
  /\ tasks'[t].pc = "done"
  /\ ~tasks'[t].result.ok
C12_FailedSearchEndsEmpty ==
  [][\A t \in DOMAIN tasks :
       SearchFails(t) =>
         /\ searchResults' = <<>>
         /\ error' = tasks'[t].result.err
         /\ error' # NULL
         /\ ~isSearching']_vars
\* a search found "dog", and the search after it was rejected for its query
C12_Witness ==
  /\ Len(tasks) = 2
  /\ tasks[1].pc = "done" /\ tasks[1].result.ok
  /\ currentSearch = <<[query |-> T_dog, mode |-> "exact", filters |-> NoFilters]>>
  /\ tasks[2].pc = "done" /\ tasks[2].result.err = ERR_QUERY
  /\ searchResults = <<>>
  /\ error = ERR_QUERY
  /\ ~isSearching

(***************************************************************************)
(* C21: parseSearchQuery applies its rules in priority order: if the query *)
(* has a double-quoted substring the terms are the quoted phrases verbatim *)
(* (also with a * in it); otherwise, if it has a *, the single term is the *)
(* query; otherwise the terms are the whitespace-separated words, each     *)
(* followed by its stem in intelligent mode and alone in exact mode.       *)
(***************************************************************************)
\* the k-th smallest element of a set of numbers
Nth(S, k) == CHOOSE x \in S : Cardinality({ y \in S : y < x }) = k - 1
Quotes(query) == { i \in DOMAIN query : query[i] = "\"" }
\* a quote at which a phrase can start: the first quote, the quote after a
\* closing quote, or the second of two adjacent quotes the first of which was
\* such a quote
RECURSIVE CanOpen(_, _)
CanOpen(query, i) ==
  LET before == { p \in Quotes(query) : p < i }
      last == CHOOSE p \in before : \A o \in before : o <= p
  IN  before = {} \/ ~CanOpen(query, last) \/ i = last + 1
NextQuote(query, i) ==
  CHOOSE j \in Quotes(query) : j > i /\ \A o \in Quotes(query) : o > i => j <= o
\* the quotes that open a phrase of at least one character
Openers(query) ==
  { i \in Quotes(query) :
      /\ CanOpen(query, i)
      /\ \E j \in Quotes(query) : j > i
      /\ NextQuote(query, i) > i + 1 }
QuotedPhrases(query) ==
  [k \in 1..Cardinality(Openers(query)) |->
     LET i == Nth(Openers(query), k)
     IN  SubSeq(query, i + 1, NextQuote(query, i) - 1)]
\* the maximal runs of characters that are not whitespace, in order
QueryWords(query) ==
  LET blank(i) == query[i] \in {" ", "\t", "\n", "\r"}
      starts == { i \in DOMAIN query : ~blank(i) /\ (i = 1 \/ blank(i - 1)) }
      endOf(i) == CHOOSE e \in i..Len(query) :
                    /\ \A x \in i..e : ~blank(x)
                    /\ (e = Len(query) \/ blank(e + 1))
  IN  [k \in 1..Cardinality(starts) |->
         SubSeq(query, Nth(starts, k), endOf(Nth(starts, k)))]
Parsed == input.fn = "parseSearchQuery" /\ output.fn = "parseSearchQuery"
C21_ParsePriority ==
  Parsed =>
    LET query == input.query
        terms == output.terms
        words == QueryWords(query)
    IN  IF Openers(query) # {} THEN terms = QuotedPhrases(query)
        ELSE IF \E i \in DOMAIN query : query[i] = "*" THEN terms = <<query>>
        ELSE IF input.mode = "intelligent"
          THEN /\ Len(terms) = 2 * Len(words)
               /\ \A k \in DOMAIN words :
                    /\ terms[2 * k - 1] = words[k]
                    /\ terms[2 * k] = stemWord(words[k])
        ELSE terms = words
\* the query '"fox* dog" cats' was parsed into the one phrase 'fox* dog'
C21_Witness ==
  /\ Parsed
  /\ \E i \in DOMAIN input.query : input.query[i] = "*"
  /\ Len(input.query) = 15
  /\ output.terms = <<SubSeq(input.query, 2, 9)>>

(***************************************************************************)
(* C22: in steps 2, 3 and 4 of stemWord the measure gate is the measure of *)
(* the stem that remains after the matched suffix is removed: a step 2 or  *)
(* step 3 rewrite is applied only if that stem has m > 0, a step 4 suffix  *)
(* is removed only if that stem has m > 1 (and, for ion, only if that stem *)
(* also ends in s or t).                                                   *)
(***************************************************************************)
\* the word as it enters step 2, step 3 and step 4
BeforeStep2(word) == step1b(applyRules(toLowerCase(word), step1aRules))
BeforeStep3(word) == step2(BeforeStep2(word))
BeforeStep4(word) == step3(BeforeStep3(word))
\* a step that changed the word applied a rule whose remaining stem has a
\* measure above the gate
GatedOnStem(before, after, rules, gate) ==
  after # before =>
    \E r \in DOMAIN rules :
      LET stem == dropLast(before, Len(rules[r].suffix))
      IN  /\ endsWith(before, rules[r].suffix)
          /\ after = stem \o rules[r].replacement
          /\ measure(stem) > gate
          /\ rules[r].suffix = <<"i","o","n">> =>
               (endsWith(stem, <<"s">>) \/ endsWith(stem, <<"t">>))
Stemmed == input.fn = "stemWord" /\ output.fn = "stemWord" /\ Len(input.word) > 2
C22_GateOnRemainingStem ==
  Stemmed =>
    /\ output.stem = step5(step4(BeforeStep4(input.word)))
    /\ GatedOnStem(BeforeStep2(input.word), BeforeStep3(input.word), step2Rules, 0)
    /\ GatedOnStem(BeforeStep3(input.word), BeforeStep4(input.word), step3Rules, 0)
    /\ GatedOnStem(BeforeStep4(input.word), step4(BeforeStep4(input.word)), step4Rules, 1)

(***************************************************************************)
(* C23: step 5 of stemWord removes a trailing e when m > 1, or when m = 1  *)
(* and the stem before the e is not CVC-shaped; a word whose stem before   *)
(* the e is CVC-shaped with m = 1 keeps its e; afterwards a trailing       *)
(* doubled l is collapsed to a single l only if m > 1.                     *)
(***************************************************************************)
BeforeStep5(word) == step4(BeforeStep4(word))
\* step 5 as the claim states it
Step5OnStem(word) ==
  LET stem == dropLast(word, 1)
      m == measure(stem)
      a == IF endsWith(word, <<"e">>) /\ (m > 1 \/ (m = 1 /\ ~cvc(stem)))
             THEN stem
             ELSE word
  IN  IF measure(a) > 1 /\ endsWith(a, <<"l","l">>) THEN dropLast(a, 1) ELSE a
C23_Step5KeepsEAfterCVC ==
  Stemmed => output.stem = Step5OnStem(BeforeStep5(input.word))

(***************************************************************************)
(* C24: the optimize pass returns at most maxWords entries in their input  *)
(* order and removes an entry only if it has frequency <= 1 and            *)
(* |articles| <= 1 and lies beyond the cap: an input of no more than       *)
(* maxWords entries is returned whole, and no entry with frequency > 1 is  *)
(* removed.                                                                *)
(***************************************************************************)
Optimized == input.fn = "optimizeWordList" /\ output.fn = "optimizeWordList"
C24_OptimizeRemovesRareBeyondCap ==
  Optimized =>
    LET words == input.words
        kept(entry) == \E k \in DOMAIN output.words : output.words[k] = entry
    IN  /\ Len(output.words) <= input.maxWords
        /\ output.words = SelectSeq(words, kept)
        /\ \A i \in DOMAIN words :
             ~kept(words[i]) =>
               /\ words[i].frequency <= 1
               /\ Len(words[i].articles) <= 1
               /\ i > input.maxWords
        /\ Len(words) <= input.maxWords => output.words = words

(***************************************************************************)
(* C25: analyze(word) for a word with no matching entry fails with the     *)
(* not-found failure and writes nothing to the analysis cache: the word    *)
(* goes NotRequested -> Loading -> Failed, and a later analyze of the same *)
(* word recomputes instead of returning a cached value.                    *)
(***************************************************************************)
\* the step of service.getWordAnalysis in which it receives the not-found
\* failure of performWordAnalysis
NotFoundStep(t) ==
  /\ tasks[t].pc = "service_getWordAnalysis"
  /\ tasks[t].ret.err = ERR_NOT_FOUND
  /\ tasks'[t].pc = "store_getWordAnalysis"
\* the step of store.getWordAnalysis in which it receives a failure
StoreFailedStep(t) ==
  /\ tasks[t].pc = "store_getWordAnalysis"
  /\ ~tasks[t].ret.ok
  /\ tasks'[t].pc = "done"
\* getWordAnalysis is called for a word that neither cache holds
UncachedCallStep ==
  /\ Len(tasks') = Len(tasks) + 1
  /\ tasks'[Len(tasks')].kind = "getWordAnalysis"
  /\ tasks'[Len(tasks')].word \notin DOMAIN wordAnalysisCache
  /\ toLowerCase(tasks'[Len(tasks')].word) \notin DOMAIN analysisCache
\* C25 (as stated): the caller of service.getWordAnalysis sees the not-found
\* failure, and no cache is written.
C25_NotFoundSurfaces ==
  [][\A t \in DOMAIN tasks :
       NotFoundStep(t) =>
         /\ tasks'[t].ret.err = ERR_NOT_FOUND
         /\ UNCHANGED <<analysisCache, wordAnalysisCache>>]_vars
\* C25 (amended): the not-found failure of performWordAnalysis is caught by
\* service.getWordAnalysis and raised again as 'Failed to analyze word', which
\* the store turns into null; neither step writes a cache, and a call for a
\* word no cache holds computes the analysis anew.
C25_NotFoundFailsUncached ==
  [][/\ \A t \in DOMAIN tasks :
          /\ NotFoundStep(t) =>
               /\ tasks'[t].ret = Rejected(ERR_WORD)
               /\ UNCHANGED <<analysisCache, wordAnalysisCache>>
          /\ StoreFailedStep(t) =>
               /\ tasks'[t].result = NoValue
               /\ UNCHANGED <<analysisCache, wordAnalysisCache>>
     /\ UncachedCallStep =>
          /\ tasks'[Len(tasks')].pc \notin {"store_getWordAnalysis", "done"}
          /\ Len(aaCalls') = Len(aaCalls) + 1
          /\ tasks'[Len(tasks')].aa = Len(aaCalls')]_vars
\* "cat" was analyzed, was not found and ended as null; the second analysis of
\* "cat" ran again and was not found either
C25_Witness ==
  /\ Len(tasks) = 2
  /\ tasks[1].word = T_cat /\ tasks[1].pc = "done"
  /\ tasks[1].ret = Rejected(ERR_WORD) /\ tasks[1].result = NoValue
  /\ Succeeded(tasks[1].aa)
  /\ tasks[2].word = T_cat /\ tasks[2].pc = "service_getWordAnalysis"
  /\ tasks[2].ret.err = ERR_NOT_FOUND
  /\ T_cat \notin DOMAIN analysisCache
  /\ T_cat \notin DOMAIN wordAnalysisCache

(***************************************************************************)
(* C26: every WordEntry of an aggregation has a word that is unique in the *)
(* output, an articles list without duplicate ids that holds only ids of   *)
(* documents in which the word occurs, 1 <= |articles| <= frequency, and   *)
(* stemmed = stem(word).                                                   *)
(***************************************************************************)
\* whether `word` is among the tokens of the document with this id
OccursIn(word, id, articles, main) ==
  \E d \in DOMAIN articles :
    /\ articles[d].id = id
    /\ LET tokens == IF main THEN computeWords(articles[d].content, FALSE, 1)
                     ELSE Worker_extractWords(articles[d].content)
       IN  \E k \in DOMAIN tokens : tokens[k] = word
EntriesValid(words, articles, main) ==
  \A i \in DOMAIN words :
    /\ \A j \in DOMAIN words : j # i => words[j].word # words[i].word
    /\ \A a, b \in DOMAIN words[i].articles :
         a # b => words[i].articles[a] # words[i].articles[b]
    /\ \A a \in DOMAIN words[i].articles :
         OccursIn(words[i].word, words[i].articles[a], articles, main)
    /\ 1 <= Len(words[i].articles)
    /\ Len(words[i].articles) <= words[i].frequency
    /\ words[i].stemmed = stemWord(words[i].word)
C26_EntryInvariants ==
  /\ (outMain.ran /\ ~outMain.throws) => EntriesValid(outMain.words, aggCorpus, TRUE)
  /\ (outWorker.ran /\ ~outWorker.throws) =>
       EntriesValid(outWorker.words, aggCorpus, FALSE)

(***************************************************************************)
(* C27: when two analyzeAllArticles calls overlap on the worker path, each *)
(* call is settled by the terminal message (analysis_complete or error) of *)
(* the job it submitted itself: no call receives the message of another    *)
(* job, and no call is left to its timeout or left waiting because a later *)
(* call replaced its message handler.                                      *)
(***************************************************************************)
\* the step in which the service's handler takes a terminal message
TerminalDelivered ==
  /\ mInbox # <<>>
  /\ mInbox' = Tail(mInbox)
  /\ Head(mInbox).type \in {"analysis_complete", "error"}
C27_SettledByOwnJob ==
  [][TerminalDelivered =>
       LET j == Head(mInbox).job
       IN  /\ aaCalls[j].promise = "pending" => aaCalls'[j].promise # "pending"
           /\ \A k \in Calls : k # j => aaCalls'[k].promise = aaCalls[k].promise]_vars

Searches == { t \in DOMAIN tasks : IsSearch(tasks[t]) }
C29_LastSubmittedWins ==
  (/\ Searches # {}
   /\ \A t \in Searches : tasks[t].pc = "done"
   /\ hasSearched) =>
    LET last == tasks[CHOOSE t \in Searches : \A o \in Searches : o <= t]
    IN  IF last.result.ok
          THEN /\ searchResults = toWordEntries(last.ret.words)
               /\ currentSearch = <<last.word>>
               /\ error = NULL
          ELSE /\ searchResults = <<>>
               /\ error = last.result.err

(***************************************************************************)
(* C30: for a word w that is itself a key of the aggregated map,           *)
(* analyze(w) reports the frequency and the article list of w's own        *)
(* WordEntry, not those of another entry that shares w's stem or contains  *)
(* w as a substring.                                                       *)
(***************************************************************************)
\* the word list performWordAnalysis ran on
WordList == IF worker THEN outWorker.words ELSE outMain.words
C30_AnalysisOfOwnEntry ==
  (input.fn = "performWordAnalysis" /\ output.fn = "performWordAnalysis") =>
    \A i \in DOMAIN WordList :
      WordList[i].word = toLowerCase(input.word) =>
        /\ output.ok
        /\ output.analysis.frequency = WordList[i].frequency
        /\ output.analysis.articles = WordList[i].articles
====
